---------------------------- MODULE Spec2Model ----------------------------
(***************************************************************************)
(* NASABinning as state machines: the bin refinement engine                *)
(* (nasabinning/refinement.py), the search that scores refined partitions  *)
(* (nasabinning/optuna_optimizer.py), the temporal stability functions     *)
(* (nasabinning/temporal_stability.py), the categorical strategy           *)
(* (nasabinning/strategies/categorical.py) and the orchestrator            *)
(* (nasabinning/binning_engine.py).                                        *)
(*                                                                         *)
(* A DataFrame is a record [cols, idx, rows]: the set of column names, the *)
(* sequence of index labels and the sequence of rows, each row a function  *)
(* from column name to value.  Event rates are exact rationals <<n, d>> in *)
(* lowest terms; <<0, 0>> is NaN (0/0, the rate of a row with count 0).    *)
(* Row positions are 0-based as in the source; rows[k + 1] is row k.       *)
(***************************************************************************)
EXTENDS Integers, Sequences, FiniteSets, TLC

VARIABLES
    pc,            \* position inside refine_bins
    bin_tbl,       \* the caller's table (the argument object)
    orig,          \* history: the caller's table as it was when the call started
    args,          \* [min_er_delta, trend, time_col] of the call
    tbl,           \* refine_bins' local table
    same_obj,      \* TRUE when the local name tbl is bound to the caller's own object
    i,             \* cursor of the delta loop
    ret,           \* what the call returned (NoFrame until it returns); the object a method is called on
    err,           \* the exception raised ("none" while there is none)
    call,          \* 1: first call; 2: second call, on the first call's result
    ret1,          \* history: the table the first call returned
    merges,        \* history: the _merge calls of the current call, in order
    study,         \* the search study: the trials evaluated so far and the best one
    data           \* the inputs of a search, a temporal_stability call, a strategy or a fit

vars == <<pc, bin_tbl, orig, args, tbl, same_obj, i, ret, err, call, ret1, merges, study, data>>

-----------------------------------------------------------------------------
(* Bounds of the model *)

\* rows of a generated bin table
MaxRows == 3

\* count of a generated row
MaxCount == 2

\* distinct values of the feature a search is run on
MaxAtoms == 3

\* trials of a study
MaxTrials == 2

\* bins of a table handed to temporal_stability
MaxCurves == 2

\* observations of a categorical column
MaxObs == 3

-----------------------------------------------------------------------------
(* Exact arithmetic on event rates *)

Abs(x) == IF x < 0 THEN -x ELSE x

RECURSIVE GCD(_, _)
GCD(a, b) == IF b = 0 THEN a ELSE GCD(b, a % b)

NaN == <<0, 0>>

IsNaN(r) == r[2] = 0

\* n / d of two non-negative numbers, in lowest terms; 0 / 0 is NaN
Rat(n, d) ==
    IF d = 0 THEN NaN
    ELSE LET g == GCD(n, d) IN <<n \div g, d \div g>>

\* abs(a - b); NaN when either operand is NaN
AbsDiff(a, b) ==
    IF IsNaN(a) \/ IsNaN(b) THEN NaN
    ELSE Rat(Abs(a[1] * b[2] - b[1] * a[2]), a[2] * b[2])

\* a < b, a <= b: every comparison with NaN is False
RatLt(a, b) == ~IsNaN(a) /\ ~IsNaN(b) /\ a[1] * b[2] < b[1] * a[2]

RatLe(a, b) == ~IsNaN(a) /\ ~IsNaN(b) /\ a[1] * b[2] <= b[1] * a[2]

-----------------------------------------------------------------------------
(* DataFrames *)

NoFrame == [cols |-> {}, idx |-> <<>>, rows |-> <<>>]

DefaultIndex(n) == [k \in 1..n |-> k - 1]

AddField(r, c, v) == [x \in (DOMAIN r) \cup {c} |-> IF x = c THEN v ELSE r[x]]

\* df[c] = vals: writes column c of df in place, vals[k] into the k-th row
SetCol(df, c, vals) ==
    [df EXCEPT !.cols = @ \cup {c},
               !.rows = [k \in DOMAIN @ |-> AddField(@[k], c, vals[k])]]

\* df[cs]: a new frame holding the columns cs only
SelectCols(df, cs) ==
    [df EXCEPT !.cols = cs,
               !.rows = [k \in DOMAIN @ |-> [x \in cs |-> @[k][x]]]]

Column(df, c) == [k \in DOMAIN df.rows |-> df.rows[k][c]]

RECURSIVE SumSeq(_)
SumSeq(s) == IF s = <<>> THEN 0 ELSE Head(s) + SumSeq(Tail(s))

-----------------------------------------------------------------------------
(* refine_bins, step 1 and 2: copy, column normalisation, column selection *)

\* tbl = bin_tbl.copy().reset_index(drop=True): a new object with the default index
CopyReset_InPlace(df) ==
    [frame |-> [df EXCEPT !.idx = DefaultIndex(Len(df.rows))], same |-> TRUE]

CopyReset(df) ==
    [frame |-> [df EXCEPT !.idx = DefaultIndex(Len(df.rows))], same |-> FALSE]

\* c.lower().replace("-", " ").strip() on the column names of the model
NonEventKey(c) ==
    CASE c = "Non-event" -> "non event"
      [] c = "Non Event" -> "non event"
      [] c = "non_event" -> "non_event"
      [] c = "Event Rate" -> "event rate"
      [] OTHER -> c

NonCols(df) == {c \in df.cols : NonEventKey(c) \in {"non event", "nonevent"}}

\* the alias wins when present; the canonical column is kept otherwise
Resolve(df, alias, canon) ==
    IF alias \in df.cols THEN SetCol(df, canon, Column(df, alias)) ELSE df

Unresolved(df, alias, canon) == alias \notin df.cols /\ canon \notin df.cols

NonEventCol(df) ==
    IF NonCols(df) # {}
    THEN SetCol(df, "non_event", Column(df, CHOOSE c \in NonCols(df) : TRUE))
    ELSE SetCol(df, "non_event",
                [k \in DOMAIN df.rows |-> df.rows[k]["count"] - df.rows[k]["event"]])

EventRateCol(df) ==
    IF "Event Rate" \in df.cols THEN SetCol(df, "event_rate", Column(df, "Event Rate"))
    ELSE IF "event_rate" \notin df.cols
    THEN SetCol(df, "event_rate",
                [k \in DOMAIN df.rows |-> Rat(df.rows[k]["event"], df.rows[k]["count"])])
    ELSE df

\* lines 50-90: the frame after the writes made, and the error raised if any
NormalizeCols(df) ==
    IF "variable" \notin df.cols THEN [err |-> "KeyError", frame |-> df]
    ELSE IF Unresolved(df, "Bin", "bin") THEN [err |-> "KeyError", frame |-> df]
    ELSE LET d1 == Resolve(df, "Bin", "bin") IN
    IF Unresolved(d1, "Count", "count") THEN [err |-> "KeyError", frame |-> d1]
    ELSE LET d2 == Resolve(d1, "Count", "count") IN
    IF Unresolved(d2, "Event", "event") THEN [err |-> "KeyError", frame |-> d2]
    ELSE LET d3 == Resolve(d2, "Event", "event") IN
    [err |-> "none", frame |-> EventRateCol(NonEventCol(d3))]

BaseCols(df, time_col) ==
    {"variable", "bin", "count", "event", "non_event", "event_rate"}
        \cup (IF time_col # "None" /\ time_col \in df.cols THEN {time_col} ELSE {})

-----------------------------------------------------------------------------
(* _merge *)

SumCols_NoNonEvent == {"count", "event"}

SumCols == {"count", "non_event", "event"}

\* row p takes row q's values instead of the sum
MergeWrite_Overwrite(df, p, q) ==
    LET ri == df.rows[p + 1]
        rj == df.rows[q + 1]
        s  == [x \in DOMAIN ri |-> IF x \in SumCols THEN rj[x] ELSE ri[x]]
    IN [df EXCEPT !.rows[p + 1] = [s EXCEPT !["event_rate"] = Rat(s["event"], s["count"])]]

\* df.loc[p, cols] = df.loc[[p, q], cols].sum(); event_rate of row p recomputed:
\* the write _merge makes in place on its argument
MergeWrite(df, p, q) ==
    LET ri == df.rows[p + 1]
        rj == df.rows[q + 1]
        s  == [x \in DOMAIN ri |-> IF x \in SumCols THEN ri[x] + rj[x] ELSE ri[x]]
    IN [df EXCEPT !.rows[p + 1] = [s EXCEPT !["event_rate"] = Rat(s["event"], s["count"])]]

\* no row is dropped
DropRow_Keep(df, q) == df

DropRow_Prev(df, q) ==
    LET n == Len(df.rows) IN
    [df EXCEPT !.rows = [k \in 1..(n - 1) |-> IF k < q THEN @[k] ELSE @[k + 1]],
               !.idx = DefaultIndex(n - 1)]

\* df.drop(index=q).reset_index(drop=True): a new frame
DropRow(df, q) ==
    LET n == Len(df.rows) IN
    [df EXCEPT !.rows = [k \in 1..(n - 1) |-> IF k < q + 1 THEN @[k] ELSE @[k + 1]],
               !.idx = DefaultIndex(n - 1)]

Merge(df, p, q) == DropRow(MergeWrite(df, p, q), q)

-----------------------------------------------------------------------------
(* refine_bins, step 4 and 5: the loops' tests *)

Rates(df) == Column(df, "event_rate")

\* delta <= min_er_delta
DeltaBelow_Le(df, k, d) ==
    RatLe(AbsDiff(df.rows[k + 1]["event_rate"], df.rows[k + 2]["event_rate"]), d)

\* delta = abs(er[i] - er[i + 1]); delta < min_er_delta
DeltaBelow(df, k, d) ==
    RatLt(AbsDiff(df.rows[k + 1]["event_rate"], df.rows[k + 2]["event_rate"]), d)

\* Series.is_monotonic_increasing / is_monotonic_decreasing: False with any NaN
IsMonotonicIncreasing(s) ==
    /\ \A k \in DOMAIN s : ~IsNaN(s[k])
    /\ \A k \in 1..(Len(s) - 1) : RatLe(s[k], s[k + 1])

IsMonotonicDecreasing(s) ==
    /\ \A k \in DOMAIN s : ~IsNaN(s[k])
    /\ \A k \in 1..(Len(s) - 1) : RatLe(s[k + 1], s[k])

\* any trend but None is taken for a direction
ValidTrend_Lenient(trend) == trend # "None"

ValidTrend(trend) == trend \in {"ascending", "descending"}

\* _check_monotonic for a valid trend (it raises ValueError for any other)
CheckMonotonic(s, trend) ==
    IF trend = "ascending" THEN IsMonotonicIncreasing(s) ELSE IsMonotonicDecreasing(s)

\* bad: the 0-based positions k >= 1 with diff[k] * sign < 0, diff = er.diff().fillna(0)
Bad(df, trend) ==
    {k \in 1..(Len(df.rows) - 1) :
        IF trend = "ascending"
        THEN RatLt(df.rows[k + 1]["event_rate"], df.rows[k]["event_rate"])
        ELSE RatLt(df.rows[k]["event_rate"], df.rows[k + 1]["event_rate"])}

Min(S) == CHOOSE x \in S : \A y \in S : x <= y

\* the loop test of line 113
MonoLoopTest_Floor3(df, trend) == ~CheckMonotonic(Rates(df), trend) /\ Len(df.rows) > 3

\* no floor: the loop goes on down to a single row
MonoLoopTest_NoFloor(df, trend) == ~CheckMonotonic(Rates(df), trend) /\ Len(df.rows) > 1

MonoLoopTest(df, trend) == ~CheckMonotonic(Rates(df), trend) /\ Len(df.rows) > 2

-----------------------------------------------------------------------------
(* The tables and arguments refine_bins is called with *)

\* a row's (count, event), event <= count
RowPool == {ce \in (0..MaxCount) \X (0..MaxCount) : ce[2] <= ce[1]}

TablesUpTo(n) == UNION {[1..m -> RowPool] : m \in 0..n}

Periods == {1, 2}

\* the naming conventions a caller's table comes in
Styles ==
    {"canonical", "optbinning", "refined", "no_variable", "no_bin", "no_count", "no_event"}

\* the styles that lack a required column under both of its names
BrokenStyles == {"no_variable", "no_bin", "no_count", "no_event"}

StyleCols(style) ==
    CASE style = "canonical" -> {"variable", "bin", "count", "event"}
      [] style = "optbinning" -> {"variable", "Bin", "Count", "Event", "Non-event"}
      [] style = "refined" ->
            {"variable", "bin", "count", "event", "non_event", "event_rate"}
      [] style = "no_variable" -> {"Bin", "count", "event"}
      [] style = "no_bin" -> {"variable", "Count", "Event"}
      [] style = "no_count" -> {"variable", "bin", "event"}
      [] style = "no_event" -> {"variable", "Bin", "Count", "Non-event"}

\* row layouts: one row per bin ("flat"), or one row per (bin, period) with a
\* period column "safra", the periods of a bin adjacent ("bin_major") or the
\* bins of a period adjacent ("period_major")
Layouts == {"flat", "bin_major", "period_major"}

BinOf(layout, k, n) ==
    CASE layout = "flat" -> k - 1
      [] layout = "bin_major" -> (k - 1) \div Cardinality(Periods)
      [] layout = "period_major" -> (k - 1) % ((n + 1) \div Cardinality(Periods))

PeriodOf(layout, k, n) ==
    CASE layout = "flat" -> 0
      [] layout = "bin_major" -> ((k - 1) % Cardinality(Periods)) + 1
      [] layout = "period_major" -> ((k - 1) \div ((n + 1) \div Cardinality(Periods))) + 1

FieldValue(c, bin, period, cnt, evt) ==
    CASE c = "variable" -> "x"
      [] c \in {"bin", "Bin"} -> bin
      [] c \in {"count", "Count"} -> cnt
      [] c \in {"event", "Event"} -> evt
      [] c \in {"non_event", "Non-event"} -> cnt - evt
      [] c \in {"event_rate", "Event Rate"} -> Rat(evt, cnt)
      [] c = "safra" -> period

\* the frame of the given style and layout whose k-th row has
\* (count, event) = pairs[k]; first is the label of the first index entry
MkFrame(pairs, style, layout, first) ==
    LET n == Len(pairs)
        cs == StyleCols(style) \cup (IF layout = "flat" THEN {} ELSE {"safra"})
    IN [cols |-> cs,
        idx |-> [k \in 1..n |-> first + k - 1],
        rows |-> [k \in 1..n |->
                    [c \in cs |-> FieldValue(c, BinOf(layout, k, n),
                                             PeriodOf(layout, k, n),
                                             pairs[k][1], pairs[k][2])]]]

\* thresholds min_er_delta >= 0
DeltaSet == {<<0, 1>>, <<1, 4>>, <<1, 2>>, <<1, 1>>}

Trends == {"None", "ascending", "descending"}

\* values of trend that _check_monotonic does not know
InvalidTrends == {"sideways", "Ascending"}

\* the fixtures of the specification's scenarios: counts of 100, rates in percent
RatePairs(ps) == [k \in DOMAIN ps |-> <<100, ps[k]>>]

FixtureScenario == RatePairs(<<5, 6, 20, 55, 58, 90>>)

FixtureOutOfOrder == RatePairs(<<50, 10, 30, 60>>)

StartCall(frame, d, trend, time_col) ==
    /\ pc = "entry"
    /\ bin_tbl = frame
    /\ orig = frame
    /\ args = [min_er_delta |-> d, trend |-> trend, time_col |-> time_col]
    /\ tbl = NoFrame
    /\ same_obj = FALSE
    /\ i = 0
    /\ ret = NoFrame
    /\ err = "none"
    /\ call = 1
    /\ ret1 = NoFrame
    /\ merges = <<>>

InitGeneric ==
    \E pairs \in TablesUpTo(MaxRows), d \in DeltaSet, trend \in Trends :
        StartCall(MkFrame(pairs, "canonical", "flat", 0), d, trend, "None")

\* the split-finder's naming, a table that already went through refine_bins,
\* and the calls that raise (a required column missing, an unknown trend)
InitStyles ==
    \E pairs \in TablesUpTo(MaxRows - 1), d \in {<<1, 4>>, <<1, 1>>} :
        \/ \E trend \in Trends :
              StartCall(MkFrame(pairs, "optbinning", "flat", 7), d, trend, "None")
        \/ \E trend \in {"None", "descending"} :
              StartCall(MkFrame(pairs, "refined", "flat", 0), d, trend, "None")
        \/ /\ d = <<1, 4>>
           /\ \/ \E style \in BrokenStyles, trend \in {"None", "ascending", "sideways"} :
                    StartCall(MkFrame(pairs, style, "flat", 0), d, trend, "None")
              \/ \E style \in {"canonical", "optbinning"}, trend \in InvalidTrends :
                    StartCall(MkFrame(pairs, style, "flat", 0), d, trend, "None")

\* tables with a period column, passed as time_col or not
InitPeriods ==
    \/ \E pairs \in TablesUpTo(MaxRows), layout \in Layouts \ {"flat"},
          d \in {<<1, 4>>, <<1, 1>>} :
          StartCall(MkFrame(pairs, "canonical", layout, 0), d, "None", "safra")
    \/ \E pairs \in TablesUpTo(MaxRows - 1) :
          StartCall(MkFrame(pairs, "canonical", "bin_major", 0), <<1, 4>>, "None", "None")

InitFixtures ==
    \/ StartCall(MkFrame(FixtureScenario, "canonical", "flat", 0), <<1, 50>>, "None", "None")
    \/ \E d \in {<<0, 1>>, <<1, 50>>, <<1, 4>>} :
        StartCall(MkFrame(FixtureOutOfOrder, "canonical", "flat", 0), d, "ascending", "None")

Init ==
    /\ study = <<>>
    /\ data = <<>>
    /\ (InitGeneric \/ InitStyles \/ InitPeriods \/ InitFixtures)

-----------------------------------------------------------------------------
(* refine_bins, one action per step *)

\* lines 48-97: copy, normalise the column names, keep the base columns
Normalize ==
    /\ pc = "entry"
    /\ LET c == CopyReset(bin_tbl)
           n == NormalizeCols(c.frame)
       IN /\ bin_tbl' = IF c.same THEN n.frame ELSE bin_tbl
          /\ IF n.err # "none"
             THEN /\ pc' = "raised"
                  /\ err' = n.err
                  /\ tbl' = n.frame
                  /\ same_obj' = c.same
             ELSE /\ pc' = "delta"
                  /\ err' = err
                  /\ tbl' = SelectCols(n.frame, BaseCols(n.frame, args.time_col))
                  /\ same_obj' = FALSE
    /\ i' = 0
    /\ UNCHANGED <<orig, args, ret, call, ret1, merges, study, data>>

\* lines 102-105: the pair at the cursor is closer than min_er_delta: merge, stay
DeltaMerge ==
    /\ pc = "delta"
    /\ i < Len(tbl.rows) - 1
    /\ DeltaBelow(tbl, i, args.min_er_delta)
    /\ tbl' = Merge(tbl, i, i + 1)
    /\ bin_tbl' = IF same_obj THEN MergeWrite(bin_tbl, i, i + 1) ELSE bin_tbl
    /\ same_obj' = FALSE
    /\ merges' = Append(merges, [pass |-> "delta", at |-> i])
    /\ UNCHANGED <<pc, orig, args, i, ret, err, call, ret1, study, data>>

\* lines 102-107: otherwise the cursor advances
DeltaAdvance ==
    /\ pc = "delta"
    /\ i < Len(tbl.rows) - 1
    /\ ~DeltaBelow(tbl, i, args.min_er_delta)
    /\ i' = i + 1
    /\ UNCHANGED <<pc, bin_tbl, orig, args, tbl, same_obj, ret, err, call, ret1, merges, study, data>>

\* line 128 (check_stability is False in the modelled calls)
Return ==
    /\ pc' = "done"
    /\ ret' = tbl
    /\ UNCHANGED <<bin_tbl, orig, args, tbl, same_obj, i, err, call, ret1, merges, study, data>>

\* line 111, reached when the delta loop ends
MonoEnter ==
    /\ pc = "delta"
    /\ ~(i < Len(tbl.rows) - 1)
    /\ IF args.trend = "None" THEN Return
       ELSE IF ~ValidTrend(args.trend)
       THEN /\ pc' = "raised"
            /\ err' = "ValueError"
            /\ UNCHANGED <<bin_tbl, orig, args, tbl, same_obj, i, ret, call, ret1, merges, study, data>>
       ELSE IF CheckMonotonic(Rates(tbl), args.trend) THEN Return
       ELSE /\ pc' = "mono"
            /\ UNCHANGED <<bin_tbl, orig, args, tbl, same_obj, i, ret, err, call, ret1, merges, study, data>>

\* lines 113-119: merge the first pair whose slope opposes the trend
MonoMerge ==
    /\ pc = "mono"
    /\ MonoLoopTest(tbl, args.trend)
    /\ Bad(tbl, args.trend) # {}
    /\ LET idx == Min(Bad(tbl, args.trend)) - 1
       IN /\ tbl' = Merge(tbl, idx, idx + 1)
          /\ bin_tbl' = IF same_obj THEN MergeWrite(bin_tbl, idx, idx + 1) ELSE bin_tbl
          /\ merges' = Append(merges, [pass |-> "mono", at |-> idx])
    /\ same_obj' = FALSE
    /\ UNCHANGED <<pc, orig, args, i, ret, err, call, ret1, study, data>>

\* lines 113, 116-117: the loop ends (monotonic, 2 rows left, or no bad pair)
MonoExit ==
    /\ pc = "mono"
    /\ ~(MonoLoopTest(tbl, args.trend) /\ Bad(tbl, args.trend) # {})
    /\ Return

\* the caller passes the returned table to refine_bins again, same arguments
CallAgain ==
    /\ pc = "done"
    /\ call = 1
    /\ pc' = "entry"
    /\ bin_tbl' = ret
    /\ orig' = ret
    /\ ret1' = ret
    /\ call' = 2
    /\ tbl' = NoFrame
    /\ same_obj' = FALSE
    /\ i' = 0
    /\ ret' = NoFrame
    /\ merges' = <<>>
    /\ UNCHANGED <<args, err, study, data>>

Next ==
    \/ Normalize
    \/ DeltaMerge
    \/ DeltaAdvance
    \/ MonoEnter
    \/ MonoMerge
    \/ MonoExit
    \/ CallAgain

Spec == Init /\ [][Next]_vars

\* refine_bins runs in one thread: a step that can be taken is taken
SpecTerminates == Spec /\ WF_vars(Next)

-----------------------------------------------------------------------------
(* The functional form of refine_bins: what one call returns or raises.    *)
(* NASABinner.fit calls it once per numeric feature.                       *)

\* lines 101-107, from cursor k on
RECURSIVE DeltaLoop(_, _, _)
DeltaLoop(df, k, d) ==
    IF ~(k < Len(df.rows) - 1) THEN df
    ELSE IF DeltaBelow(df, k, d) THEN DeltaLoop(Merge(df, k, k + 1), k, d)
    ELSE DeltaLoop(df, k + 1, d)

\* lines 113-119
RECURSIVE MonoLoop(_, _)
MonoLoop(df, trend) ==
    IF MonoLoopTest(df, trend) /\ Bad(df, trend) # {}
    THEN MonoLoop(Merge(df, Min(Bad(df, trend)) - 1, Min(Bad(df, trend))), trend)
    ELSE df

RefineBins(df, d, trend, time_col) ==
    LET n == NormalizeCols(CopyReset(df).frame)
    IN IF n.err # "none" THEN [err |-> n.err, frame |-> NoFrame]
       ELSE LET t == DeltaLoop(SelectCols(n.frame, BaseCols(n.frame, time_col)), 0, d)
            IN IF trend = "None" THEN [err |-> "none", frame |-> t]
               ELSE IF ~ValidTrend(trend) THEN [err |-> "ValueError", frame |-> NoFrame]
               ELSE [err |-> "none", frame |-> MonoLoop(t, trend)]


-----------------------------------------------------------------------------
(* The data a search runs on: one numeric feature X with MaxAtoms distinct  *)
(* values, a binary target y, and a time label per observation.            *)

Atoms == 1..MaxAtoms

PeriodSeq == <<1, 2>>

\* the observations of one value of X: <<count, events>> in period 1 and in
\* period 2; every value has events and non-events in every period
ProfileCycle == << <<<<5, 1>>, <<5, 4>>>>, <<<<5, 2>>, <<6, 3>>>>, <<<<6, 5>>, <<6, 2>>>> >>

\* the values of X take these observations in turn, from any of them on
Datasets ==
    { [a \in Atoms |-> ProfileCycle[((a + k) % Len(ProfileCycle)) + 1]] :
          k \in 1..Len(ProfileCycle) }

\* how search_dtypes classifies the time column of df_fit: there is none (no
\* time dimension), it is numeric (fitted as one more feature), or it is a
\* datetime (ignored)
TimeKinds == {"none", "numeric", "datetime"}

\* the label the split-finder's table gives its totals row
TotalsLabels == {"", "Total"}

\* <<count, events>> of the observations with X in lo..hi and period in ts
CellSum(cells, lo, hi, ts) ==
    <<SumSeq([a \in 1..(hi - lo + 1) |->
                SumSeq([k \in DOMAIN ts |-> cells[lo + a - 1][ts[k]][1]])]),
      SumSeq([a \in 1..(hi - lo + 1) |->
                SumSeq([k \in DOMAIN ts |-> cells[lo + a - 1][ts[k]][2]])])>>

\* per distinct value, in value order, <<count, events>>: of X, of the time column
XValues(cells) == [a \in Atoms |-> CellSum(cells, a, a, PeriodSeq)]

TimeValues(cells) == [t \in DOMAIN PeriodSeq |-> CellSum(cells, 1, MaxAtoms, <<PeriodSeq[t]>>)]

-----------------------------------------------------------------------------
(* SupervisedBinning.fit: the split-finder and its binning table           *)

SortedSeq(S) ==
    [k \in 1..Cardinality(S) |-> CHOOSE x \in S : Cardinality({y \in S : y < x}) = k - 1]

\* the bins <<lo, hi>> of the partition of 1..n with a split after each c in cuts
Bins(cuts, n) ==
    LET s == SortedSeq({1} \cup {c + 1 : c \in cuts})
    IN [k \in 1..Len(s) |-> <<s[k], IF k < Len(s) THEN s[k + 1] - 1 ELSE n>>]

\* <<count, events>> of each bin, vals[v] being those of value v
BinTotals(vals, cuts) ==
    LET b == Bins(cuts, Len(vals))
    IN [k \in DOMAIN b |->
          <<SumSeq([v \in 1..(b[k][2] - b[k][1] + 1) |-> vals[b[k][1] + v - 1][1]]),
            SumSeq([v \in 1..(b[k][2] - b[k][1] + 1) |-> vals[b[k][1] + v - 1][2]])>>]

\* what the split-finder may answer for max_n_bins and min_bin_size: at most
\* max_bins bins, each holding at least the share min_bin_size of the
\* observations, no two bins with the same event rate
SplitFinder(vals, max_bins, min_bin_size) ==
    {cuts \in SUBSET (1..(Len(vals) - 1)) :
        LET b == BinTotals(vals, cuts)
            total == SumSeq([k \in DOMAIN b |-> b[k][1]])
        IN /\ Len(b) <= max_bins
           /\ \A k \in DOMAIN b : b[k][1] * min_bin_size[2] >= min_bin_size[1] * total
           /\ \A j, k \in DOMAIN b : j # k => Rat(b[j][2], b[j][1]) # Rat(b[k][2], b[k][1])}

BinLabels == <<"bin0", "bin1", "bin2", "bin3", "bin4", "bin5">>

TableCols == {"Bin", "Count", "Non-event", "Event", "Event rate", "variable"}

TableRow(variable, label, cnt, evt) ==
    [c \in TableCols |->
        CASE c = "variable" -> variable
          [] c = "Bin" -> label
          [] c = "Count" -> cnt
          [] c = "Event" -> evt
          [] c = "Non-event" -> cnt - evt
          [] c = "Event rate" -> IF cnt = 0 THEN <<0, 1>> ELSE Rat(evt, cnt)]

\* ob.binning_table.build() with the variable column, index reset by concat:
\* the bins, the Special and the Missing row (empty here), the totals row
BinningTable(vals, cuts, variable, totals_label) ==
    LET b == BinTotals(vals, cuts)
        n == Len(b)
    IN [cols |-> TableCols,
        idx |-> DefaultIndex(n + 3),
        rows |-> [k \in 1..(n + 3) |->
                    IF k <= n THEN TableRow(variable, BinLabels[k], b[k][1], b[k][2])
                    ELSE IF k = n + 1 THEN TableRow(variable, "Special", 0, 0)
                    ELSE IF k = n + 2 THEN TableRow(variable, "Missing", 0, 0)
                    ELSE TableRow(variable, totals_label,
                                  SumSeq([j \in 1..n |-> b[j][1]]),
                                  SumSeq([j \in 1..n |-> b[j][2]]))]]


-----------------------------------------------------------------------------
(* Scores are real numbers; the model keeps each between two bounds in     *)
(* millionths: lo <= value <= hi, lo = hi when the value is known exactly. *)

RatAdd(a, b) == Rat(a[1] * b[2] + b[1] * a[2], a[2] * b[2])

RECURSIVE RatSum(_)
RatSum(s) == IF s = <<>> THEN <<0, 1>> ELSE RatAdd(Head(s), RatSum(Tail(s)))

\* floor(r * 10^k / den) and the remainder left, for 0 <= r < den, digit by digit
RECURSIVE FixDiv(_, _, _)
FixDiv(r, den, k) ==
    IF k = 0 THEN 0
    ELSE ((r * 10) \div den) * 10 ^ (k - 1) + FixDiv((r * 10) % den, den, k - 1)

RECURSIVE FixRem(_, _, _)
FixRem(r, den, k) == IF k = 0 THEN r ELSE FixRem((r * 10) % den, den, k - 1)

FloorMicro(r) == (r[1] \div r[2]) * 10 ^ 6 + FixDiv(r[1] % r[2], r[2], 6)

CeilMicro(r) == FloorMicro(r) + (IF FixRem(r[1] % r[2], r[2], 6) = 0 THEN 0 ELSE 1)

-----------------------------------------------------------------------------
(* metrics.iv *)

\* the clip at 1e-9: every positive proportion of the model is above it
ClipEps(p) == p[1] = 0

\* a term with one proportion clipped: r * ln(r * 10^9) for the other
\* proportion r, between r - 1e-9 and r * (9 ln 10 + r - 1) < 21 r
ClippedTerm(r) == [lo |-> FloorMicro(r) - 1, hi |-> CeilMicro(r) * 21]

\* one bin's term (p - q) * ln(p / q), with p = evt / evt.sum() and
\* q = non / non.sum(), each clipped at 1e-9 under the logarithm. With both
\* positive (the clip leaves them as they are): since
\* 1 - 1/x <= ln x <= x - 1, the term lies between (p - q)^2 / max(p, q) and
\* (p - q)^2 / min(p, q)
IvTerm(e, esum, n, nsum) ==
    LET p  == Rat(e, esum)
        q  == Rat(n, nsum)
        dd == AbsDiff(p, q)
        mn == IF RatLe(p, q) THEN p ELSE q
        mx == IF RatLe(p, q) THEN q ELSE p
    IN IF ClipEps(p) /\ ClipEps(q) THEN [lo |-> 0, hi |-> 0]
       ELSE IF ClipEps(p) THEN ClippedTerm(q)
       ELSE IF ClipEps(q) THEN ClippedTerm(p)
       ELSE [lo |-> FloorMicro(Rat(dd[1] * dd[1] * mx[2], dd[2] * dd[2] * mx[1])),
             hi |-> CeilMicro(Rat(dd[1] * dd[1] * mn[2], dd[2] * dd[2] * mn[1]))]

\* iv(bin_tbl) of the rows of one variable. evt / evt.sum() is 0/0 = NaN in
\* every bin when the column sums to 0, and so is the value returned; the sum
\* over no bin at all is 0.0
Iv(rows) ==
    LET esum == SumSeq([k \in DOMAIN rows |-> rows[k]["event"]])
        nsum == SumSeq([k \in DOMAIN rows |-> rows[k]["non_event"]])
        term == [k \in DOMAIN rows |->
                    IvTerm(rows[k]["event"], esum, rows[k]["non_event"], nsum)]
    IN IF rows # <<>> /\ (esum = 0 \/ nsum = 0) THEN [nan |-> TRUE, lo |-> 0, hi |-> 0]
       ELSE [nan |-> FALSE,
             lo |-> SumSeq([k \in DOMAIN rows |-> term[k].lo]),
             hi |-> SumSeq([k \in DOMAIN rows |-> term[k].hi])]

-----------------------------------------------------------------------------
(* NASABinner.fit, the flow without search, on the columns of df_fit *)

Bookkeeping == {"Total", "Special", "Missing"}

\* lines 136-139: the rows with count > 0 whose bin is no bookkeeping label
CleanSummary(df) ==
    SelectSeq(df.rows, LAMBDA r : r["count"] > 0 /\ r["bin"] \notin Bookkeeping)

\* lines 124-142 for one numeric column: the rows it adds to bin_summary
FitColumn(vals, cuts, variable, totals_label, d, monotonic, time_col) ==
    CleanSummary(
        RefineBins(BinningTable(vals, cuts, variable, totals_label),
                   d, monotonic, time_col).frame)

\* the rows of bin_summary that are bins of the data (the totals row is none)
RealBins(rows, totals_label) ==
    SelectSeq(rows, LAMBDA r : r["bin"] # totals_label)


-----------------------------------------------------------------------------
(* temporal_stability: the pivot of the codes transform emits, its scores  *)

\* event_rate_by_time of the (bin, time) counts of df_tmp: one row per bin of
\* the fitted split-finder (the code transform gives an observation is the bin
\* its value falls in), one column per period, event / count in each cell
EventRateByTime(cells, cuts) ==
    LET b == Bins(cuts, MaxAtoms)
    IN [k \in DOMAIN b |->
          [t \in DOMAIN PeriodSeq |->
              LET s == CellSum(cells, b[k][1], b[k][2], <<PeriodSeq[t]>>)
              IN Rat(s[2], s[1])]]

\* np.abs(curves[i] - curves[j]).mean()
CurveDistance(ci, cj) ==
    LET s == RatSum([t \in DOMAIN ci |-> AbsDiff(ci[t], cj[t])])
    IN Rat(s[1], s[2] * Len(ci))

\* temporal_separability_score without penalties: 0 with fewer than 2 bins,
\* the mean distance over the pairs of bins otherwise
TemporalSeparabilityScore(pivot) ==
    LET n == Len(pivot)
        s == RatSum([j \in 1..n |->
                RatSum([k \in 1..n |->
                    IF j < k THEN CurveDistance(pivot[j], pivot[k]) ELSE <<0, 1>>])])
    IN IF n < 2 THEN <<0, 1>> ELSE Rat(2 * s[1], s[2] * n * (n - 1))

Max(S) == CHOOSE x \in S : \A y \in S : y <= x

\* ks_2samp(xs, ys).statistic: the largest distance between the two empirical
\* distribution functions
KsStatistic(xs, ys) ==
    LET vs == {xs[k] : k \in DOMAIN xs} \cup {ys[k] : k \in DOMAIN ys}
        Below(s, v) == Cardinality({k \in DOMAIN s : RatLe(s[k], v)})
    IN Rat(Max({Abs(Below(xs, v) * Len(ys) - Below(ys, v) * Len(xs)) : v \in vs}),
           Len(xs) * Len(ys))

\* ks_over_time: first against last period
KsOverTime(pivot) ==
    KsStatistic([k \in DOMAIN pivot |-> pivot[k][1]],
                [k \in DOMAIN pivot |-> pivot[k][Len(PeriodSeq)]])


-----------------------------------------------------------------------------
(* optuna_optimizer: _objective and optimize_bins *)

\* the weights of the score, in tenths
Alpha == 7

Beta == 2

Gamma == 1

\* the values a trial suggests, within the ranges of lines 52-56
ParamSpace ==
    [max_bins : {3, 10}, min_bin_size : {<<1, 10>>},
     min_event_rate_diff : {<<1, 100>>, <<1, 10>>}]

TimeCol(dat) == IF dat.time_kind = "none" THEN "None" ELSE "safra"

\* what the split-finder is configured with
FinderKeys == [max_bins : {3, 10}, min_bin_size : {<<1, 10>>}]

FinderKey(params) == [max_bins |-> params.max_bins, min_bin_size |-> params.min_bin_size]

\* the keyword arguments optimize_bins is called with besides its own: those
\* NASABinner.fit passes, with a strategy_kwargs added
BaseKwargs ==
    { [strategy |-> "supervised", min_event_rate_diff |-> <<1, 50>>,
       monotonic |-> "None", check_stability |-> FALSE,
       strategy_kwargs |-> [min_bin_size |-> <<1, 20>>]] }

\* an object a local name is bound to: same is TRUE when it is the caller's
\* own object, FALSE when it is a copy
Alias(v) == [same |-> TRUE, v |-> v]

\* dict(base_kwargs), X.copy()
DictCopy_Alias(dct) == Alias(dct)

DictCopy(dct) == [same |-> FALSE, v |-> dct]

FrameCopy(cols) == [same |-> FALSE, v |-> cols]

\* dct.pop(key, None)
Pop(dct, key) == [k \in (DOMAIN dct) \ {key} |-> dct[k]]

\* lines 59-75: what _objective leaves in the caller's base_kwargs and X.
\* cfg loses two keys, df_fit gains the time column; the caller's objects
\* follow when the local names are bound to them
ObjectiveWrites(dat) ==
    LET cfg    == DictCopy(dat.base_kwargs)
        popped == Pop(Pop(cfg.v, "min_event_rate_diff"), "strategy_kwargs")
        df_fit == FrameCopy(dat.X)
        fitted == IF dat.time_kind = "none" THEN df_fit.v ELSE df_fit.v \cup {TimeCol(dat)}
    IN [base_kwargs |-> IF cfg.same THEN popped ELSE dat.base_kwargs,
        X |-> IF df_fit.same THEN fitted ELSE dat.X]

\* one evaluation of _objective: the candidate is fitted on df_fit (the time
\* column is one more numeric feature when there is one), then scored. The
\* split-finder is a function of the column and its configuration: split_x
\* and split_t hold its answers for X and for the time column. The score is
\* in tenths of millionths.
Objective(dat, params) ==
    LET cuts  == dat.split_x[FinderKey(params)]
        tcuts == dat.split_t[FinderKey(params)]
        xrows == FitColumn(XValues(dat.cells), cuts, "x", dat.totals,
                           params.min_event_rate_diff, "None", TimeCol(dat))
        trows == IF dat.time_kind = "numeric"
                 THEN FitColumn(TimeValues(dat.cells), tcuts, "safra", dat.totals,
                                params.min_event_rate_diff, "None", TimeCol(dat))
                 ELSE <<>>
        ivx   == Iv(xrows)
        ivt   == IF trows = <<>> THEN [lo |-> 0, hi |-> 0] ELSE Iv(trows)
        iv    == [lo |-> ivx.lo + ivt.lo, hi |-> ivx.hi + ivt.hi]
        pivot == EventRateByTime(dat.cells, cuts)
        sep   == IF dat.time_kind = "none" THEN <<0, 1>>
                 ELSE TemporalSeparabilityScore(pivot)
        ks    == IF dat.time_kind = "none" THEN <<0, 1>> ELSE KsOverTime(pivot)
    IN [params |-> params,
        cuts |-> cuts,
        tcuts |-> tcuts,
        separability |-> sep,
        iv |-> iv,
        ks |-> ks,
        n_bins |-> Len(xrows) + Len(trows),
        bins_x |-> Len(RealBins(xrows, dat.totals)),
        score |-> [lo |-> Alpha * FloorMicro(sep) + Beta * iv.lo + Gamma * FloorMicro(ks),
                   hi |-> Alpha * CeilMicro(sep) + Beta * iv.hi + Gamma * CeilMicro(ks)]]

\* a final binner built with NASABinner's defaults (max_bins = 6,
\* min_event_rate_diff = 0.02, SupervisedBinning's min_bin_size = 0.05)
FinalBinner_Defaults(dat, params) ==
    [max_bins |-> 6,
     min_event_rate_diff |-> <<1, 50>>,
     strategy_kwargs |-> [min_bin_size |-> <<1, 20>>, max_bins |-> 6],
     use_optuna |-> FALSE,
     bin_summary |-> <<>>,
     iv_ |-> [lo |-> 0, hi |-> 0],
     best_params_ |-> params]

\* lines 165-182: the final binner, built with the best parameters and fitted
\* on df_final as a candidate is on df_fit; __init__ copies max_bins into
\* strategy_kwargs, line 182 sets best_params_
FinalBinner(dat, params) ==
    LET cuts  == dat.split_x[FinderKey(params)]
        tcuts == dat.split_t[FinderKey(params)]
        xrows == FitColumn(XValues(dat.cells), cuts, "x", dat.totals,
                           params.min_event_rate_diff, "None", TimeCol(dat))
        trows == IF dat.time_kind = "numeric"
                 THEN FitColumn(TimeValues(dat.cells), tcuts, "safra", dat.totals,
                                params.min_event_rate_diff, "None", TimeCol(dat))
                 ELSE <<>>
        ivx   == Iv(xrows)
        ivt   == IF trows = <<>> THEN [lo |-> 0, hi |-> 0] ELSE Iv(trows)
    IN [max_bins |-> params.max_bins,
        min_event_rate_diff |-> params.min_event_rate_diff,
        strategy_kwargs |-> [min_bin_size |-> params.min_bin_size,
                             max_bins |-> params.max_bins],
        use_optuna |-> FALSE,
        bin_summary |-> xrows \o trows,
        iv_ |-> [lo |-> ivx.lo + ivt.lo, hi |-> ivx.hi + ivt.hi],
        best_params_ |-> params]

\* two trials whose candidates were fitted alike: the same values go through
\* the same computation
SameEvaluation(t, b) ==
    /\ t.params.min_event_rate_diff = b.params.min_event_rate_diff
    /\ t.cuts = b.cuts
    /\ t.tcuts = b.tcuts

\* direction = "minimize"
BestAfter_Minimize(trials, best, t) ==
    IF best = 0 THEN {Len(trials) + 1}
    ELSE LET b == trials[best]
         IN (IF t.score.lo < b.score.hi /\ ~SameEvaluation(t, b)
             THEN {Len(trials) + 1} ELSE {})
            \cup (IF t.score.hi >= b.score.lo THEN {best} ELSE {})

\* direction = "maximize": the study's best trial after trial t is told, best
\* being the number of the best trial so far (0: none). A trial replaces the
\* best one only with a strictly greater value.
BestAfter(trials, best, t) ==
    IF best = 0 THEN {Len(trials) + 1}
    ELSE LET b == trials[best]
         IN (IF t.score.hi > b.score.lo /\ ~SameEvaluation(t, b)
             THEN {Len(trials) + 1} ELSE {})
            \cup (IF t.score.lo <= b.score.hi THEN {best} ELSE {})

Idle ==
    /\ pc = "idle"
    /\ bin_tbl = NoFrame
    /\ orig = NoFrame
    /\ args = [min_er_delta |-> <<0, 1>>, trend |-> "None", time_col |-> "None"]
    /\ tbl = NoFrame
    /\ same_obj = FALSE
    /\ i = 0
    /\ ret = NoFrame
    /\ err = "none"
    /\ call = 0
    /\ ret1 = NoFrame
    /\ merges = <<>>

\* optimize_bins is called: line 143
InitSearch ==
    /\ Idle
    /\ \E cells \in Datasets, kind \in TimeKinds, label \in TotalsLabels,
          kwargs \in BaseKwargs :
       \E sx \in [FinderKeys -> SUBSET (1..(MaxAtoms - 1))] :
          /\ \A key \in FinderKeys :
                sx[key] \in SplitFinder(XValues(cells), key.max_bins, key.min_bin_size)
          /\ \E st \in [FinderKeys -> SUBSET (1..(Len(PeriodSeq) - 1))] :
                /\ \A key \in FinderKeys :
                      st[key] \in IF kind = "numeric"
                                  THEN SplitFinder(TimeValues(cells), key.max_bins,
                                                   key.min_bin_size)
                                  ELSE {{}}
                /\ data = [cells |-> cells, time_kind |-> kind, totals |-> label,
                           split_x |-> sx, split_t |-> st,
                           X |-> {"x"}, base_kwargs |-> kwargs]
    /\ study = [trials |-> <<>>, best |-> 0, best_params |-> <<>>, final_binner |-> <<>>]

\* study.optimize, one of the n_trials <= MaxTrials trials: lines 51-117
Trial ==
    /\ study.best_params = <<>>
    /\ Len(study.trials) < MaxTrials
    /\ \E params \in ParamSpace :
       \E t \in {Objective(data, params)} :
       \E nb \in BestAfter(study.trials, study.best, t) :
          study' = [study EXCEPT !.trials = Append(@, t), !.best = nb]
    /\ LET w == ObjectiveWrites(data)
       IN data' = [data EXCEPT !.base_kwargs = w.base_kwargs, !.X = w.X]
    /\ UNCHANGED <<pc, bin_tbl, orig, args, tbl, same_obj, i, ret, err, call, ret1, merges>>

\* lines 156-184, after the last of the n_trials >= 1 trials: the parameters
\* of the best trial and the final binner
ReturnBest ==
    /\ study.best_params = <<>>
    /\ Len(study.trials) >= 1
    /\ LET best_params == study.trials[study.best].params
       IN study' = [study EXCEPT !.best_params = <<best_params>>,
                                 !.final_binner = <<FinalBinner(data, best_params)>>]
    /\ UNCHANGED <<pc, bin_tbl, orig, args, tbl, same_obj, i, ret, err, call, ret1, merges, data>>

NextSearch ==
    \/ Trial
    \/ ReturnBest

SpecSearch == InitSearch /\ [][NextSearch]_vars

\* the same search with a split-finder that answers the finest admissible
\* partition of a column
FinestFinder(dat) ==
    \A key \in FinderKeys :
        /\ \A c \in SplitFinder(XValues(dat.cells), key.max_bins, key.min_bin_size) :
               Cardinality(c) <= Cardinality(dat.split_x[key])
        /\ dat.time_kind = "numeric" =>
               \A c \in SplitFinder(TimeValues(dat.cells), key.max_bins, key.min_bin_size) :
                  Cardinality(c) <= Cardinality(dat.split_t[key])

InitOptimize == InitSearch /\ FinestFinder(data)

SpecOptimize == InitOptimize /\ [][NextSearch]_vars


-----------------------------------------------------------------------------
(* temporal_stability called on its own: event_rate_by_time on a bin table  *)
(* with a time column, temporal_separability_score on observations         *)

\* the periods of a table with a time column, ascending
Safras == <<1, 2, 3, 4>>

\* the threshold of penalize_low_freq
LowFreq == 30

\* a (bin, period) combination of a table is <<count, event>> of its row, or
\* Absent when the table has no row for it
Absent == <<>>

\* the row counts of a generated table: below and at the threshold
CellCounts == {2, LowFreq}

\* the rows of one bin over the periods: a row in every period, with rate 0
\* or 1: flat, rising, falling, one change of slope, two changes of slope
FullCurves(n) ==
    { <<<<n, 0>>, <<n, 0>>, <<n, 0>>, <<n, 0>>>>,
      <<<<n, n>>, <<n, n>>, <<n, n>>, <<n, n>>>>,
      <<<<n, 0>>, <<n, 0>>, <<n, n>>, <<n, n>>>>,
      <<<<n, n>>, <<n, n>>, <<n, 0>>, <<n, 0>>>>,
      <<<<n, 0>>, <<n, n>>, <<n, n>>, <<n, 0>>>>,
      <<<<n, n>>, <<n, 0>>, <<n, 0>>, <<n, n>>>>,
      <<<<n, 0>>, <<n, n>>, <<n, 0>>, <<n, n>>>>,
      <<<<n, n>>, <<n, 0>>, <<n, n>>, <<n, 0>>>> }

\* periods without a row for the bin
GapCurves(n) ==
    { <<Absent, <<n, 0>>, <<n, n>>, <<n, n>>>>,
      <<<<n, 0>>, Absent, <<n, n>>, <<n, 0>>>>,
      <<Absent, Absent, Absent, <<n, n>>>> }

\* periods with a row of count 0 for the bin
EmptyCurves(n) ==
    { <<<<0, 0>>, <<0, 0>>, <<0, 0>>, <<0, 0>>>>,
      <<<<0, 0>>, <<n, n>>, <<n, 0>>, <<n, n>>>>,
      <<<<n, n>>, <<0, 0>>, <<n, 0>>, <<n, 0>>>> }

\* bin tables with a time column: bins 1..k, one row per (bin, period) at most
BinTables(curves) == UNION {[1..k -> curves] : k \in 1..MaxCurves}

\* df["event_rate"] = df["event"] / df["count"], of the row of a combination
CellRate(c) == IF c = Absent THEN NaN ELSE Rat(c[2], c[1])

\* pivot_table(index=["variable", "bin"], columns=time_col, values="event_rate"):
\* the mean rate per (bin, period); groups whose mean is NaN are dropped before
\* the unstack (dropna=True), so the index holds the bins and the columns the
\* periods with a defined rate somewhere; a combination left without a group
\* is NaN.  Then sort_index on both axes.
PivotIndex(t) ==
    SortedSeq({b \in DOMAIN t : \E p \in DOMAIN Safras : ~IsNaN(CellRate(t[b][p]))})

PivotColumns(t) ==
    SortedSeq({Safras[p] : p \in {q \in DOMAIN Safras :
                                      \E b \in DOMAIN t : ~IsNaN(CellRate(t[b][q]))}})

EventRatePivot(t) ==
    LET index == PivotIndex(t)
        columns == PivotColumns(t)
    IN [index |-> index, columns |-> columns,
        values |-> [r \in DOMAIN index |->
                      [c \in DOMAIN columns |-> CellRate(t[index[r]][columns[c]])]]]

\* np.sign(np.diff(values)): 1, 0 or -1 per step; 2 stands for the NaN of a
\* step next to an undefined rate
Sign(a, b) ==
    IF IsNaN(a) \/ IsNaN(b) THEN 2
    ELSE IF RatLt(a, b) THEN 1
    ELSE IF RatLt(b, a) THEN -1
    ELSE 0

SlopeSigns(values) == [k \in 1..(Len(values) - 1) |-> Sign(values[k], values[k + 1])]

\* np.unique(trend[trend != 0]).size > 1 (NaN != 0 is True: a NaN step stays;
\* the score is NaN whenever there is one, however NaNs are counted)
HasInversion_Twice(values) ==
    LET s == SlopeSigns(values)
        nz == SelectSeq(s, LAMBDA x : x # 0)
    IN Cardinality({k \in 1..(Len(nz) - 1) : nz[k] # nz[k + 1]}) > 1

HasInversion(values) ==
    LET s == SlopeSigns(values)
    IN Cardinality({s[k] : k \in DOMAIN s} \ {0}) > 1

\* tbl.groupby(bin_col)["count"].min() < 30, summed over the bins
LowFreqBins(t) ==
    Cardinality({b \in DOMAIN t :
        \E p \in DOMAIN Safras : t[b][p] # Absent /\ t[b][p][1] < LowFreq})

\* temporal_separability_score: lines 78-110
TemporalSeparability(t, penalize_inversions, penalize_low_freq) ==
    LET pivot == EventRatePivot(t)
        n_bins == Len(pivot.index)
        score == TemporalSeparabilityScore(pivot.values)
        low == IF penalize_low_freq THEN LowFreqBins(t) ELSE 0
        inv == IF penalize_inversions
               THEN Cardinality({r \in DOMAIN pivot.values : HasInversion(pivot.values[r])})
               ELSE 0
    IN IF n_bins < 2 THEN <<0, 1>>
       ELSE RatAdd(score, <<-(low + inv), 10>>)

\* a call of one of the two functions
InitStability ==
    /\ Idle
    /\ study = <<>>
    /\ \E n \in CellCounts :
          \/ \E t \in BinTables(FullCurves(n) \cup GapCurves(n) \cup EmptyCurves(n)) :
                data = [entry |-> "event_rate_by_time", tbl |-> t,
                        penalize_inversions |-> FALSE, penalize_low_freq |-> FALSE]
          \/ \E t \in BinTables(FullCurves(n) \cup GapCurves(n)), pi, pl \in BOOLEAN :
                data = [entry |-> "temporal_separability_score", tbl |-> t,
                        penalize_inversions |-> pi, penalize_low_freq |-> pl]

EventRateByTimeCall ==
    /\ pc = "idle"
    /\ data.entry = "event_rate_by_time"
    /\ pc' = "returned"
    /\ ret' = EventRatePivot(data.tbl)
    /\ UNCHANGED <<bin_tbl, orig, args, tbl, same_obj, i, err, call, ret1, merges, study, data>>

TemporalSeparabilityScoreCall ==
    /\ pc = "idle"
    /\ data.entry = "temporal_separability_score"
    /\ pc' = "returned"
    /\ ret' = [score |-> TemporalSeparability(data.tbl, data.penalize_inversions,
                                              data.penalize_low_freq)]
    /\ UNCHANGED <<bin_tbl, orig, args, tbl, same_obj, i, err, call, ret1, merges, study, data>>

NextStability ==
    \/ EventRateByTimeCall
    \/ TemporalSeparabilityScoreCall

SpecStability == InitStability /\ [][NextStability]_vars


-----------------------------------------------------------------------------
(* metrics.py: iv called on a bin table *)

\* the bin tables iv is called with: events and non-events per bin
IvTables ==
    UNION {[1..m -> [event : 0..MaxCount, non_event : 0..MaxCount]] : m \in 0..MaxRows}

InitIv ==
    /\ Idle
    /\ study = <<>>
    /\ \E rows \in IvTables : data = [bin_tbl |-> rows]

\* iv(bin_tbl): lines 12-22
IvCall ==
    /\ pc = "idle"
    /\ pc' = "scored"
    /\ ret' = Iv(data.bin_tbl)
    /\ UNCHANGED <<bin_tbl, orig, args, tbl, same_obj, i, err, call, ret1, merges, study, data>>

NextIv == IvCall

SpecIv == InitIv /\ [][NextIv]_vars


-----------------------------------------------------------------------------
(* strategies/categorical.py: CategoricalBinning *)

\* the values of a categorical column
Categories == {"a", "b"}

\* rare_threshold = 0.01, as a fraction
RareThreshold == <<1, 100>>

\* the columns fit is called with: one value and one target per observation
CatColumns == UNION {[1..n -> Categories] : n \in 2..MaxObs}

\* the categorical split-finder on a column: it raises, or it assigns every
\* value a bin code
CatSolvers ==
    {[fails |-> TRUE, bins |-> [c \in Categories \cup {"_RARE_"} |-> 1]]}
        \cup {[fails |-> FALSE, bins |-> g] : g \in [Categories \cup {"_RARE_"} -> {1, 2}]}

\* how OrdinalEncoder numbers the values of a category-typed column: by the
\* order of the categories, or by the order of first appearance
OrdinalOrders == {"categories", "appearance"}

\* lines 33-35: values rarer than rare_threshold become "_RARE_"
RareMerge(s) ==
    LET freq(c) == Rat(Cardinality({k \in DOMAIN s : s[k] = c}), Len(s))
    IN [k \in DOMAIN s |-> IF RatLt(freq(s[k]), RareThreshold) THEN "_RARE_" ELSE s[k]]

Distinct(codes) == {codes[k] : k \in DOMAIN codes}

\* line 50: len(pd.unique(codes)) < 2
TooFewBins_None(codes) == Cardinality(Distinct(codes)) < 1

TooFewBins(codes) == Cardinality(Distinct(codes)) < 2

\* ob.transform(values, metric="bins"): the code of the bin of each value
SolverCodes(s, solver) == [k \in DOMAIN s |-> solver.bins[s[k]]]

\* lines 47-52, the try block: raised is TRUE when control reaches the handler
TryOptimalBinning(s, solver) ==
    IF solver.fails THEN [raised |-> TRUE, codes |-> <<>>]
    ELSE LET codes == SolverCodes(s, solver)
         IN IF TooFewBins(codes) THEN [raised |-> TRUE, codes |-> <<>>]
            ELSE [raised |-> FALSE, codes |-> codes]

\* the categories of the column in their sorted order
CategoryOrder == <<"_RARE_", "a", "b">>

\* OrdinalEncoder: 1, 2, ... in the order the encoder numbers the values it
\* was fitted on; -1 for a value it has not seen
OrdinalCodes(fitted, order, s) ==
    LET seen == Distinct(fitted)
        First(c) == Min({k \in DOMAIN fitted : fitted[k] = c})
        Pos(c) == CHOOSE k \in DOMAIN CategoryOrder : CategoryOrder[k] = c
        Rank(c) == IF order = "appearance"
                   THEN Cardinality({x \in seen : First(x) <= First(c)})
                   ELSE Cardinality({x \in seen : Pos(x) <= Pos(c)})
    IN [k \in DOMAIN s |-> IF s[k] \in seen THEN Rank(s[k]) ELSE -1]

\* lines 59-71: count and events per code, in ascending order of the code
CatSummary(col, codes, y) ==
    LET bins == SortedSeq(Distinct(codes))
        Of(b) == {k \in DOMAIN codes : codes[k] = b}
        Events(b) == Cardinality({k \in Of(b) : y[k] = 1})
    IN [r \in DOMAIN bins |->
          [variable |-> col, bin |-> bins[r],
           count |-> Cardinality(Of(bins[r])), event |-> Events(bins[r]),
           non_event |-> Cardinality(Of(bins[r])) - Events(bins[r]),
           event_rate |-> Rat(Events(bins[r]), Cardinality(Of(bins[r])))]]

\* CategoricalBinning.fit: lines 27-72
CategoricalFit(dat) ==
    LET s == RareMerge(dat.col)
        attempt == TryOptimalBinning(s, dat.solver)
        codes == IF attempt.raised THEN OrdinalCodes(s, dat.order, s) ELSE attempt.codes
    IN [encoder |-> IF attempt.raised THEN "ordinal" ELSE "woe",
        fitted |-> s,
        bin_summary_ |-> CatSummary("x", codes, dat.y),
        codes |-> <<>>]

\* CategoricalBinning.transform: lines 75-83 (the "woe" branch leaves the
\* values as they are, the encoder was fitted on the rare-merged ones)
CategoricalTransform(dat, strat, s) ==
    IF strat.encoder = "woe" THEN SolverCodes(s, dat.solver)
    ELSE OrdinalCodes(strat.fitted, dat.order, s)

InitCategorical ==
    /\ Idle
    /\ study = <<>>
    /\ \E col \in CatColumns, solver \in CatSolvers, order \in OrdinalOrders :
       \E y \in [DOMAIN col -> {0, 1}] :
          data = [col |-> col, y |-> y, solver |-> solver, order |-> order]

CatFit ==
    /\ pc = "idle"
    /\ pc' = "fitted"
    /\ ret' = CategoricalFit(data)
    /\ UNCHANGED <<bin_tbl, orig, args, tbl, same_obj, i, err, call, ret1, merges, study, data>>

CatTransform ==
    /\ pc = "fitted"
    /\ pc' = "transformed"
    /\ ret' = [ret EXCEPT !.codes = CategoricalTransform(data, ret, data.col)]
    /\ UNCHANGED <<bin_tbl, orig, args, tbl, same_obj, i, err, call, ret1, merges, study, data>>

NextCategorical ==
    \/ CatFit
    \/ CatTransform

SpecCategorical == InitCategorical /\ [][NextCategorical]_vars


-----------------------------------------------------------------------------
(* binning_engine.py: NASABinner.fit over the features of X, and            *)
(* stability_over_time                                                     *)

FeatureNames == <<"f1", "f2">>

\* a numeric feature: its values and what the split-finder does with them
\* under NASABinner's defaults (max_bins = 6, min_bin_size = 0.05): it
\* answers a partition, or it raises
NumericFeatures ==
    UNION {{[kind |-> "numeric", fails |-> FALSE, vals |-> XValues(c), cuts |-> k,
             col |-> <<>>, y |-> <<>>, cells |-> c]
               : k \in SplitFinder(XValues(c), 6, <<1, 20>>)} : c \in Datasets}
      \cup {[kind |-> "numeric", fails |-> TRUE, vals |-> XValues(c), cuts |-> {},
             col |-> <<>>, y |-> <<>>, cells |-> c] : c \in {CHOOSE d \in Datasets : TRUE}}

\* a categorical feature: two values, three observations each, the target
\* with different or with equal event rates; fails is the split-finder's
\* failure CategoricalBinning recovers from
CategoricalFeatures ==
    {[kind |-> "categorical", fails |-> f, vals |-> <<>>, cuts |-> {},
      col |-> <<"a", "a", "a", "b", "b", "b">>, y |-> y, cells |-> <<>>]
        : f \in BOOLEAN, y \in {<<0, 1, 1, 0, 0, 1>>, <<0, 0, 1, 0, 0, 1>>}}

\* X: its features by column, in the order search_dtypes lists them (the
\* numeric ones first). The numeric columns of a frame of several features
\* are taken from one dataset.
FeatureLists ==
    {fs \in UNION {[1..n -> NumericFeatures \cup CategoricalFeatures] : n \in 1..Len(FeatureNames)} :
        /\ \A j, k \in DOMAIN fs : (j < k /\ fs[k].kind = "numeric") => fs[j].kind = "numeric"
        /\ Len(fs) > 1 =>
              \A k \in DOMAIN fs :
                 fs[k].kind = "numeric" => fs[k].cells = (CHOOSE d \in Datasets : TRUE)}

\* __init__: lines 41-61
NewBinner ==
    [fitted_strategy |-> "None",
     per_feature_binners |-> [set |-> FALSE, items |-> <<>>],
     bin_summary |-> [kind |-> "None", parts |-> <<>>, rows |-> <<>>],
     best_params_ |-> <<>>,
     best_trials |-> <<>>,
     iv_ |-> <<>>,
     stability |-> "none",
     out |-> <<>>]

\* str(code): the bin of a categorical summary as bin_summary holds it
CodeLabels == <<"1", "2">>

\* lines 146-156: CategoricalBinning().fit on the column, no refine_bins, the
\* filter of lines 153-156
CategoricalColumn(f, variable) ==
    LET strat == CategoricalFit([col |-> f.col, y |-> f.y, order |-> "categories",
                                 solver |-> [fails |-> f.fails,
                                             bins |-> [c \in Categories \cup {"_RARE_"} |->
                                                          IF c = "a" THEN 1 ELSE 2]]])
        rows == [r \in DOMAIN strat.bin_summary_ |->
                    [strat.bin_summary_[r] EXCEPT !.variable = variable,
                                                  !.bin = CodeLabels[@]]]
    IN SelectSeq(rows, LAMBDA r : r["count"] > 0 /\ r["bin"] \notin Bookkeeping)

\* one pass of the loops of lines 122-159 (use_optuna = False), or one call
\* of optimize_bins whose best trial suggested params (lines 97-104): what the
\* feature adds to bin_summary and to _per_feature_binners
FeatureSummary(f, variable, totals_label, d) ==
    IF f.kind = "numeric"
    THEN FitColumn(f.vals, f.cuts, variable, totals_label, d, "None", "None")
    ELSE CategoricalColumn(f, variable)

FeatureBinner(f, variable, use_optuna) ==
    [col |-> variable,
     class |-> IF use_optuna THEN "NASABinner"
               ELSE IF f.kind = "numeric" THEN "SupervisedBinning" ELSE "CategoricalBinning",
     fitted_strategy |-> IF use_optuna THEN "None" ELSE "absent"]

RECURSIVE Concat(_)
Concat(parts) == IF parts = <<>> THEN <<>> ELSE Head(parts) \o Concat(Tail(parts))

\* lines 99-104: optimize_bins(X[[col]], y, time_col=time_col,
\* n_trials=n_trials, **base_kwargs), as _objective sees it. No time_values
\* is passed: it is None in _objective whatever time_col is, and the frame
\* holds the feature alone
SearchCall(f, totals_label, time_col) ==
    [cells |-> f.cells, time_kind |-> "none", totals |-> totals_label,
     split_x |-> [key \in FinderKeys |-> f.cuts],
     split_t |-> [key \in FinderKeys |-> {}]]

\* the best trial of the feature's study, the one that suggested params:
\* what _objective computed and recorded for it
FeatureTrial(f, totals_label, time_col, params) ==
    IF f.kind = "numeric" THEN Objective(SearchCall(f, totals_label, time_col), params)
    ELSE [params |-> params, separability |-> <<0, 1>>, ks |-> <<0, 1>>]

\* a call of fit on a new binner
InitFit ==
    /\ Idle
    /\ study = <<>>
    /\ \E fs \in FeatureLists, use_optuna \in BOOLEAN, label \in TotalsLabels,
          has_time \in BOOLEAN, time_col \in {"None", "safra"} :
          data = [features |-> fs, use_optuna |-> use_optuna, totals |-> label,
                  min_event_rate_diff |-> <<1, 10>>, time_col_in_X |-> has_time,
                  time_col |-> time_col]

Construct ==
    /\ pc = "idle"
    /\ pc' = "new"
    /\ ret' = NewBinner
    /\ UNCHANGED <<bin_tbl, orig, args, tbl, same_obj, i, err, call, ret1, merges, study, data>>

\* lines 64-95 and 118-119: the containers fit starts with
FitStart ==
    /\ pc = "new"
    /\ pc' = "loop"
    /\ i' = 0
    /\ ret' = IF data.use_optuna
              THEN [ret EXCEPT !.per_feature_binners = [set |-> TRUE, items |-> <<>>],
                               !.best_params_ = <<>>]
              ELSE [ret EXCEPT !.per_feature_binners = [set |-> TRUE, items |-> <<>>],
                               !.bin_summary = [kind |-> "list", parts |-> <<>>, rows |-> <<>>]]
    /\ UNCHANGED <<bin_tbl, orig, args, tbl, same_obj, err, call, ret1, merges, study, data>>

\* one feature: lines 96-104 (search) or 122-159 (plain). Nothing catches
\* what the split-finder raises.
FitFeature ==
    /\ pc = "loop"
    /\ i < Len(data.features)
    /\ LET f == data.features[i + 1]
           variable == FeatureNames[i + 1]
       IN IF f.kind = "numeric" /\ f.fails
          THEN /\ pc' = "raised"
               /\ err' = "ValueError"
               /\ UNCHANGED <<ret, i>>
          ELSE /\ \E params \in ParamSpace :
                     /\ IF data.use_optuna
                        THEN f.kind = "numeric" =>
                                f.cuts \in SplitFinder(f.vals, params.max_bins, params.min_bin_size)
                        ELSE params = CHOOSE p \in ParamSpace : TRUE
                     /\ LET d == IF data.use_optuna THEN params.min_event_rate_diff
                                 ELSE data.min_event_rate_diff
                            summary == FeatureSummary(f, variable, data.totals, d)
                            binner == FeatureBinner(f, variable, data.use_optuna)
                        IN ret' = IF data.use_optuna
                                  THEN [ret EXCEPT !.per_feature_binners.items = Append(@, binner),
                                                   !.best_params_ = Append(@, params),
                                                   !.best_trials =
                                                      Append(@, FeatureTrial(f, data.totals,
                                                                             data.time_col, params))]
                                  ELSE [ret EXCEPT !.per_feature_binners.items = Append(@, binner),
                                                   !.bin_summary.parts = Append(@, summary)]
               /\ i' = i + 1
               /\ UNCHANGED <<pc, err>>
    /\ UNCHANGED <<bin_tbl, orig, args, tbl, same_obj, call, ret1, merges, study, data>>

\* lines 106-116 or 162-168: pd.concat and the Information Value. In search
\* mode the summaries are those of the per-feature binners.
FitFinish ==
    /\ pc = "loop"
    /\ i = Len(data.features)
    /\ pc' = "fitted"
    /\ LET parts == IF data.use_optuna
                    THEN [k \in DOMAIN data.features |->
                             FeatureSummary(data.features[k], FeatureNames[k], data.totals,
                                            ret.best_params_[k].min_event_rate_diff)]
                    ELSE ret.bin_summary.parts
       IN ret' = [ret EXCEPT !.bin_summary = [kind |-> "frame", parts |-> <<>>,
                                              rows |-> Concat(parts)],
                             !.iv_ = <<"float">>]
    /\ UNCHANGED <<bin_tbl, orig, args, tbl, same_obj, i, err, call, ret1, merges, study, data>>

\* the frame X handed to transform: MaxAtoms rows, row k holding the k-th
\* value of each numeric feature and a category of each categorical one; its
\* index is the default 0..n-1 or the labels a split of a larger frame leaves
IndexKinds == {"default", "shifted"}

XIndex(kind) ==
    [k \in 1..MaxAtoms |-> IF kind = "default" THEN k - 1 ELSE k + MaxAtoms - 1]

XColumn(f) ==
    [k \in 1..MaxAtoms |-> IF f.kind = "numeric" THEN k
                           ELSE IF k % 2 = 1 THEN "a" ELSE "b"]

\* a cell of a frame of codes: a value, or NaN
Cell(v) == [nan |-> FALSE, v |-> v]

NaNCell == [nan |-> TRUE, v |-> <<>>]

\* ob.transform(values) with optbinning's default metric, the Weight of
\* Evidence ln((non_event / NE) / (event / E)) of the split-finder's bin the
\* value falls in; the model keeps the quotient under the logarithm
WoeCode(vals, cuts, v) ==
    LET b    == BinTotals(vals, cuts)
        bins == Bins(cuts, Len(vals))
        k    == CHOOSE j \in DOMAIN bins : bins[j][1] <= v /\ v <= bins[j][2]
        e    == SumSeq([j \in DOMAIN b |-> b[j][2]])
        ne   == SumSeq([j \in DOMAIN b |-> b[j][1] - b[j][2]])
    IN Rat((b[k][1] - b[k][2]) * e, b[k][2] * ne)

\* what the categorical strategy of the fit flow is built from
CatData(f) ==
    [col |-> f.col, y |-> f.y, order |-> "categories",
     solver |-> [fails |-> f.fails,
                 bins |-> [c \in Categories \cup {"_RARE_"} |-> IF c = "a" THEN 1 ELSE 2]]]

\* pd.DataFrame({col: codes}) without index: the codes under the default index
DefaultIndexed(index, vals) == [idx |-> DefaultIndex(Len(vals)), vals |-> vals]

\* the column b.transform(X[[col]]) returns for a strategy b.
\* SupervisedBinning.transform (supervised.py 45-53) builds its frame with
\* index=X.index, and so does OrdinalEncoder.transform; the "woe" branch of
\* CategoricalBinning.transform (categorical.py 77-81) builds it without
StrategyTransform(f, index) ==
    LET x == XColumn(f)
    IN IF f.kind = "numeric"
       THEN [idx |-> index,
             vals |-> [k \in DOMAIN x |-> Cell(WoeCode(f.vals, f.cuts, x[k]))]]
       ELSE LET codes == CategoricalTransform(CatData(f), CategoricalFit(CatData(f)), x)
                cells == [k \in DOMAIN x |-> Cell(codes[k])]
            IN IF CategoricalFit(CatData(f)).encoder = "woe"
               THEN DefaultIndexed(index, cells)
               ELSE [idx |-> index, vals |-> cells]

\* pd.DataFrame({col: series}, index=index): the series aligned on index by
\* label, NaN where the series has no such label
Reindex(series, index) ==
    [idx |-> index,
     vals |-> [k \in DOMAIN index |->
                 IF \E j \in DOMAIN series.idx : series.idx[j] = index[k]
                 THEN series.vals[CHOOSE j \in DOMAIN series.idx : series.idx[j] = index[k]]
                 ELSE NaNCell]]

\* NASABinner.transform, lines 172-178: one column per entry of
\* _per_feature_binners. In search mode the entry is a NASABinner fitted on
\* the feature alone, whose transform is this same method.
BinnerTransform(fs, use_optuna, index) ==
    [idx |-> index,
     cols |-> [k \in DOMAIN fs |->
                 LET col == IF use_optuna
                            THEN Reindex(StrategyTransform(fs[k], index), index)
                            ELSE StrategyTransform(fs[k], index)
                 IN Reindex(col, index).vals]]

\* binner.transform(X) on the fitted binner
Transform ==
    /\ pc = "fitted"
    /\ pc' = "transformed"
    /\ \E kind \in IndexKinds :
          ret' = [ret EXCEPT !.out = [call |-> "transform", index |-> XIndex(kind),
                                      frame |-> BinnerTransform(data.features, data.use_optuna,
                                                                XIndex(kind))]]
    /\ UNCHANGED <<bin_tbl, orig, args, tbl, same_obj, i, err, call, ret1, merges, study, data>>

\* the feature fitted under the name column, 0 when there is none
FeatureOf(column) ==
    IF \E k \in DOMAIN data.features : FeatureNames[k] = column
    THEN CHOOSE k \in DOMAIN data.features : FeatureNames[k] = column
    ELSE 0

\* get_bin_mapping, lines 200-236: the exception raised, or the category ->
\* bin pairs. The "woe" branch subscripts encoder.splits with "mapping";
\* optbinning's splits of a categorical fit is a list of arrays of
\* categories, which no string subscripts.
GetBinMappingResult(binner, fs, column) ==
    LET items == binner.per_feature_binners.items
        found == binner.per_feature_binners.set
                    /\ \E k \in DOMAIN items : items[k].col = column
    IN IF ~found
       THEN IF binner.fitted_strategy = "None"
            THEN [err |-> "RuntimeError", mapping |-> {}]
            ELSE [err |-> "ValueError", mapping |-> {}]
       ELSE LET k == CHOOSE j \in DOMAIN items : items[j].col = column
            IN IF items[k].class # "CategoricalBinning"
               THEN [err |-> "ValueError", mapping |-> {}]
               ELSE LET strat == CategoricalFit(CatData(fs[k]))
                    IN IF strat.encoder = "woe"
                       THEN [err |-> "TypeError", mapping |-> {}]
                       ELSE [err |-> "none",
                             mapping |-> {<<strat.fitted[r],
                                            OrdinalCodes(strat.fitted, "categories",
                                                         strat.fitted)[r]>>
                                             : r \in DOMAIN strat.fitted}]

\* binner.get_bin_mapping(column), before or after fit
GetBinMapping ==
    /\ pc \in {"new", "fitted"}
    /\ pc' = "mapped"
    /\ \E k \in DOMAIN FeatureNames :
          LET r == GetBinMappingResult(ret, data.features, FeatureNames[k])
          IN /\ err' = r.err
             /\ ret' = [ret EXCEPT !.out = [call |-> "get_bin_mapping",
                                            column |-> FeatureNames[k],
                                            mapping |-> r.mapping]]
    /\ UNCHANGED <<bin_tbl, orig, args, tbl, same_obj, i, call, ret1, merges, study, data>>

\* _bin_code_to_label, lines 323-341: bin_summary has none of the bin_code
\* columns, so the keys are the positions 0.0, 1.0, ... of the variable's
\* rows; labels[p + 1] is the label under key p
BinCodeToLabelDict(binner, var) ==
    LET bs == SelectSeq(binner.bin_summary.rows, LAMBDA r : r["variable"] = var)
    IN [p \in DOMAIN bs |-> bs[p]["bin"]]

\* dict.get(code) for a code transform emitted, a Weight of Evidence kept as
\* the quotient under its logarithm: it equals the key 0.0 when the quotient
\* is 1 and no other key (e^1, e^2, ... are no quotients of counts)
LabelOfCode(labels, code) ==
    IF code = <<1, 1>> /\ Len(labels) >= 1 THEN <<labels[1]>> ELSE <<>>

\* binner._bin_code_to_label(var) on the fitted binner
BinCodeToLabel ==
    /\ pc = "fitted"
    /\ pc' = "labelled"
    /\ \E k \in DOMAIN data.features :
          ret' = [ret EXCEPT !.out = [call |-> "_bin_code_to_label", var |-> FeatureNames[k],
                                      labels |-> BinCodeToLabelDict(ret, FeatureNames[k])]]
    /\ UNCHANGED <<bin_tbl, orig, args, tbl, same_obj, i, err, call, ret1, merges, study, data>>

\* stability_over_time: lines 245-320. _fitted_strategy stays None, so the
\* per-feature branch is taken once _per_feature_binners exists; it reads
\* _fitted_strategy of each per-feature object.
StabilityResult(binner, time_col_in_X) ==
    IF ~time_col_in_X THEN "KeyError"
    ELSE IF binner.fitted_strategy # "None" THEN "pivot"
    ELSE IF binner.per_feature_binners.set
    THEN IF binner.per_feature_binners.items = <<>> THEN "ValueError"
         ELSE IF binner.per_feature_binners.items[1].fitted_strategy \in {"absent", "None"}
         THEN "AttributeError"
         ELSE "pivot"
    ELSE "RuntimeError"

StabilityOverTime ==
    /\ pc \in {"new", "fitted"}
    /\ pc' = "stability"
    /\ LET r == StabilityResult(ret, data.time_col_in_X)
       IN /\ err' = IF r = "pivot" THEN "none" ELSE r
          /\ ret' = [ret EXCEPT !.stability = IF r = "pivot" THEN "pivot" ELSE "none"]
    /\ UNCHANGED <<bin_tbl, orig, args, tbl, same_obj, i, call, ret1, merges, study, data>>

NextFit ==
    \/ Construct
    \/ FitStart
    \/ FitFeature
    \/ FitFinish
    \/ Transform
    \/ GetBinMapping
    \/ BinCodeToLabel
    \/ StabilityOverTime

SpecFit == InitFit /\ [][NextFit]_vars


-----------------------------------------------------------------------------
(* What the properties read: the caller's table by its own column names *)

InCol(df, alias, canon) == IF alias \in df.cols THEN Column(df, alias) ELSE Column(df, canon)

InCount(df) == InCol(df, "Count", "count")

InEvent(df) == InCol(df, "Event", "event")

InNonEvent(df) ==
    IF "Non-event" \in df.cols THEN Column(df, "Non-event")
    ELSE [k \in DOMAIN df.rows |-> InCount(df)[k] - InEvent(df)[k]]

Running == pc \in {"delta", "mono", "done"}

Returned == pc = "done"

AdjacentPairs(df) == 1..(Len(df.rows) - 1)

BothDefined(df, k) ==
    ~IsNaN(df.rows[k]["event_rate"]) /\ ~IsNaN(df.rows[k + 1]["event_rate"])

\* the pair (k, k + 1) is at least d apart
Apart(df, k, d) ==
    RatLe(d, AbsDiff(df.rows[k]["event_rate"], df.rows[k + 1]["event_rate"]))

\* the slope from row k to row k + 1 opposes the trend
Opposes(df, k, trend) ==
    IF trend = "ascending"
    THEN RatLt(df.rows[k + 1]["event_rate"], df.rows[k]["event_rate"])
    ELSE RatLt(df.rows[k]["event_rate"], df.rows[k + 1]["event_rate"])

\* the defined rates are ordered in the direction of the trend (non-strict)
Ordered(df, trend) ==
    \A j, k \in DOMAIN df.rows :
        (j < k /\ ~IsNaN(df.rows[j]["event_rate"]) /\ ~IsNaN(df.rows[k]["event_rate"]))
            => IF trend = "ascending"
               THEN RatLe(df.rows[j]["event_rate"], df.rows[k]["event_rate"])
               ELSE RatLe(df.rows[k]["event_rate"], df.rows[j]["event_rate"])

AllDefined(df) == \A k \in DOMAIN df.rows : ~IsNaN(df.rows[k]["event_rate"])

PeriodCount(df, cnt, p) ==
    SumSeq([k \in DOMAIN df.rows |-> IF df.rows[k]["safra"] = p THEN cnt[k] ELSE 0])

-----------------------------------------------------------------------------
(* C1..C9: the refinement engine *)

\* C1 (threshold satisfaction): the table refine_bins returns has fewer than 2
\* rows, or every adjacent pair of rows with defined event rates is at least
\* min_er_delta apart.
C1_ThresholdSatisfaction ==
    Returned =>
        \/ Len(ret.rows) < 2
        \/ \A k \in AdjacentPairs(ret) :
              BothDefined(ret, k) => Apart(ret, k, args.min_er_delta)

\* C2 (conservation): after every merge and in the returned table, the sums of
\* count, event and non_event over the rows equal those of the caller's table.
C2_Conservation ==
    /\ Running =>
          /\ SumSeq(Column(tbl, "count")) = SumSeq(InCount(orig))
          /\ SumSeq(Column(tbl, "event")) = SumSeq(InEvent(orig))
          /\ SumSeq(Column(tbl, "non_event")) = SumSeq(InNonEvent(orig))
    /\ Returned =>
          /\ SumSeq(Column(ret, "count")) = SumSeq(InCount(orig))
          /\ SumSeq(Column(ret, "event")) = SumSeq(InEvent(orig))
          /\ SumSeq(Column(ret, "non_event")) = SumSeq(InNonEvent(orig))

\* a call that merged in the delta pass and in the monotonicity pass has returned
C2_Witness ==
    /\ Returned
    /\ call = 1
    /\ \E m \in DOMAIN merges : merges[m].pass = "delta"
    /\ \E m \in DOMAIN merges : merges[m].pass = "mono"
    /\ Len(ret.rows) >= 2

\* C3 (row invariant): after every merge and in the returned table every row
\* has count = event + non_event (every modelled input row has it, or carries
\* no non-event column).
C3_RowInvariant ==
    /\ Running =>
          \A k \in DOMAIN tbl.rows :
              tbl.rows[k]["count"] = tbl.rows[k]["event"] + tbl.rows[k]["non_event"]
    /\ Returned =>
          \A k \in DOMAIN ret.rows :
              ret.rows[k]["count"] = ret.rows[k]["event"] + ret.rows[k]["non_event"]

\* a merged row with events and non-events, from a table that came with its own
\* non-event column
C3_Witness ==
    /\ Running
    /\ "Non-event" \in orig.cols
    /\ merges # <<>>
    /\ \E k \in DOMAIN tbl.rows :
          tbl.rows[k]["event"] > 0 /\ tbl.rows[k]["non_event"] > 0

\* C4 (monotonicity, testable form): with trend ascending (descending) the
\* returned table has exactly 2 rows or its event rates are non-decreasing
\* (non-increasing).
C4_MonotonicOrTwoRows ==
    (Returned /\ ValidTrend(args.trend)) =>
        \/ Len(ret.rows) = 2
        \/ Ordered(ret, args.trend)

C6_Idempotence ==
    (Returned /\ call = 2) => (ret = ret1 /\ merges = <<>>)

\* C7 (no mutation of the input): the caller's table is the same before,
\* during and after the call, returning or raising, and the table returned is
\* not the caller's object.
C7_InputNotMutated ==
    /\ bin_tbl = orig
    /\ Returned => ~same_obj

\* a call on a table with alias column names and its own index has merged and
\* returned
C7_Witness ==
    /\ Returned
    /\ call = 1
    /\ "Bin" \in orig.cols
    /\ Len(orig.rows) >= 2
    /\ orig.idx[1] # 0
    /\ merges # <<>>

IsScenario ==
    /\ call = 1
    /\ orig = MkFrame(FixtureScenario, "canonical", "flat", 0)
    /\ args.min_er_delta = <<1, 50>>
    /\ args.trend = "None"

\* C8 as stated (scenario): rates 0.05, 0.06, 0.20, 0.55, 0.58, 0.90 with
\* min_event_rate_diff 0.02: bins 0 and 1 merge and bins 3 and 4 merge, leaving
\* 4 bins with non-decreasing event rates.
C8_ScenarioFourBins ==
    (Returned /\ IsScenario) =>
        /\ Column(ret, "bin") = <<0, 2, 3, 5>>
        /\ Ordered(ret, "ascending")

\* C8 as amended: only bins 0 and 1 merge (0.58 - 0.55 = 0.03 is not below
\* 0.02), leaving the 5 bins 0, 2, 3, 4, 5 with rates 0.055, 0.20, 0.55, 0.58,
\* 0.90, non-decreasing.
C8_ScenarioFiveBins ==
    (Returned /\ IsScenario) =>
        /\ Column(ret, "bin") = <<0, 2, 3, 4, 5>>
        /\ Column(ret, "count") = <<200, 100, 100, 100, 100>>
        /\ Rates(ret) = <<<<11, 200>>, <<1, 5>>, <<11, 20>>, <<29, 50>>, <<9, 10>>>>
        /\ merges = <<[pass |-> "delta", at |-> 0]>>
        /\ Ordered(ret, "ascending")

C8_Witness == Returned /\ IsScenario /\ Len(ret.rows) = 5

\* C9 (per-period conservation): when the table carries the period column, the
\* count summed over the rows of each period is the same after every merge and
\* in the returned table as in the caller's table.
C9_PerPeriodConservation ==
    (Running /\ "safra" \in tbl.cols) =>
        \A p \in Periods :
            PeriodCount(tbl, Column(tbl, "count"), p) = PeriodCount(orig, InCount(orig), p)

-----------------------------------------------------------------------------
(* C10: the search objective *)

\* the candidate of trial t has fewer than 2 bins of X after refinement
Degenerate(t) == t.bins_x < 2

\* C10 (degenerate-partition guard): every trial whose candidate has fewer
\* than 2 bins after refinement scored strictly below every trial whose
\* candidate has at least 2, so that it is not the study's best trial when
\* such a candidate was tried. (A score is taken to be strictly below another
\* one unless its lower bound reaches the other's upper bound.)
C10_DegenerateGuard ==
    \A j, k \in DOMAIN study.trials :
        (Degenerate(study.trials[j]) /\ ~Degenerate(study.trials[k])) =>
            study.trials[j].score.lo < study.trials[k].score.hi

-----------------------------------------------------------------------------
(* C11: invalid input to refine_bins *)

\* every required field of the caller's table has a name refine_bins accepts
SchemaOk(df) ==
    /\ "variable" \in df.cols
    /\ "Bin" \in df.cols \/ "bin" \in df.cols
    /\ "Count" \in df.cols \/ "count" \in df.cols
    /\ "Event" \in df.cols \/ "event" \in df.cols

TrendOk(trend) == trend \in {"None", "ascending", "descending"}

\* C11 (invalid input is rejected): a call on a table with an unresolvable
\* required field, or with an unknown trend, never returns a table; when it
\* ends it has raised, KeyError for the field, ValueError for the trend,
\* whatever the rows of the table; and a call raises for no other reason.
C11_InvalidInputRejected ==
    /\ Returned => (SchemaOk(orig) /\ TrendOk(args.trend) /\ err = "none")
    /\ pc = "raised" =>
          /\ ret = NoFrame
          /\ ~SchemaOk(orig) => err = "KeyError"
          /\ (SchemaOk(orig) /\ ~TrendOk(args.trend)) => err = "ValueError"
          /\ ~(SchemaOk(orig) /\ TrendOk(args.trend))

\* an unknown trend raised on a table of fewer than 2 rows with a valid schema
C11_Witness ==
    /\ pc = "raised"
    /\ err = "ValueError"
    /\ SchemaOk(orig)
    /\ Len(orig.rows) < 2


-----------------------------------------------------------------------------
(* C12, C13: temporal_stability *)

ScoreReturned == pc = "returned" /\ data.entry = "temporal_separability_score"

PivotReturned == pc = "returned" /\ data.entry = "event_rate_by_time"

\* the periods the caller's table has a row for, ascending
TablePeriods(t) ==
    SortedSeq({Safras[p] : p \in {q \in DOMAIN Safras : \E b \in DOMAIN t : t[b][q] # Absent}})

\* the rates of bin b over those periods, as the caller's table gives them
Trajectory(t, b) ==
    LET ps == TablePeriods(t) IN [p \in DOMAIN ps |-> CellRate(t[b][ps[p]])]

\* every bin has a defined rate in every period of the table
Gapless(t) ==
    \A b \in DOMAIN t : \A p \in DOMAIN TablePeriods(t) : ~IsNaN(Trajectory(t, b)[p])

Rises(values) == \E k \in 1..(Len(values) - 1) : RatLt(values[k], values[k + 1])

Falls(values) == \E k \in 1..(Len(values) - 1) : RatLt(values[k + 1], values[k])

\* how many times the slope of a trajectory changes sign, flat steps left out
SignChanges(values) ==
    LET s == [k \in 1..(Len(values) - 1) |->
                 IF RatLt(values[k], values[k + 1]) THEN 1
                 ELSE IF RatLt(values[k + 1], values[k]) THEN -1 ELSE 0]
        nz == SelectSeq(s, LAMBDA x : x # 0)
    IN Cardinality({k \in 1..(Len(nz) - 1) : nz[k] # nz[k + 1]})

\* the score of the same call without the inversion penalty
Unpenalised == TemporalSeparability(data.tbl, FALSE, data.penalize_low_freq)

\* C12 as stated: with penalize_inversions the score is the unpenalised score
\* less 0.1 for each bin whose trajectory changes the sign of its slope more
\* than once; a bin with a single change (rise then fall) costs nothing.
C12_PenaltyOnSecondChange ==
    (ScoreReturned /\ data.penalize_inversions) =>
        ret.score = RatAdd(Unpenalised,
            <<-Cardinality({b \in DOMAIN data.tbl :
                               SignChanges(Trajectory(data.tbl, b)) > 1}), 10>>)

\* C12 amended: with penalize_inversions, at least 2 bins and a defined rate
\* for every bin in every period of the data, the score is the unpenalised score less 0.1 for
\* each bin whose trajectory both rises and falls somewhere (one change of
\* slope sign is enough); with fewer than 2 bins the score is 0.0 and nothing
\* is subtracted; with an undefined rate in the pivot the score is NaN.
C12_PenaltyOnAnyInversion ==
    (ScoreReturned /\ data.penalize_inversions) =>
        IF Len(data.tbl) < 2 THEN ret.score = <<0, 1>>
        ELSE IF ~Gapless(data.tbl) THEN IsNaN(ret.score)
        ELSE ret.score = RatAdd(Unpenalised,
                <<-Cardinality({b \in DOMAIN data.tbl :
                      Rises(Trajectory(data.tbl, b)) /\ Falls(Trajectory(data.tbl, b))}), 10>>)

\* two bins, one monotone, one that rises then falls: 0.1 is subtracted
C12_Witness ==
    /\ ScoreReturned
    /\ data.penalize_inversions
    /\ Len(data.tbl) = 2
    /\ Gapless(data.tbl)
    /\ SignChanges(Trajectory(data.tbl, 1)) = 0
    /\ SignChanges(Trajectory(data.tbl, 2)) = 1
    /\ ret.score = RatAdd(Unpenalised, <<-1, 10>>)


IsAscending(s) == \A j, k \in DOMAIN s : j < k => s[j] < s[k]

\* C13: for a table with k distinct bins and p distinct periods,
\* event_rate_by_time returns a pivot with exactly k rows and p columns, the
\* rows ordered by bin ascending and the columns by period ascending, also
\* when some (bin, period) combinations have no row or rows have count 0.
C13_PivotShape ==
    PivotReturned =>
        /\ Len(ret.index) = Len(data.tbl)
        /\ Len(ret.columns) = Len(TablePeriods(data.tbl))
        /\ \A r \in DOMAIN ret.values : Len(ret.values[r]) = Len(ret.columns)
        /\ IsAscending(ret.index)
        /\ IsAscending(ret.columns)


-----------------------------------------------------------------------------
(* C14..C16: the search *)

\* alpha * sep + beta * iv + gamma * ks of the values a trial recorded, in
\* tenths of millionths
Weighted(t) ==
    [lo |-> Alpha * FloorMicro(t.separability) + Beta * t.iv.lo + Gamma * FloorMicro(t.ks),
     hi |-> Alpha * CeilMicro(t.separability) + Beta * t.iv.hi + Gamma * CeilMicro(t.ks)]

\* C14: the score of every trial is 0.7 * separability + 0.2 * iv + 0.1 * ks
\* of the values the trial recorded; a greater score is better for every
\* trial and for the study (no trial scores above the study's best trial);
\* without a time dimension separability and ks are 0 and the score is
\* 0.2 * iv.
C14_ScoreCombination ==
    /\ Alpha = 7 /\ Beta = 2 /\ Gamma = 1
    /\ \A j \in DOMAIN study.trials :
          LET t == study.trials[j]
          IN /\ t.score = Weighted(t)
             /\ data.time_kind = "none" =>
                   /\ t.separability = <<0, 1>>
                   /\ t.ks = <<0, 1>>
                   /\ t.score = [lo |-> Beta * t.iv.lo, hi |-> Beta * t.iv.hi]
             /\ ~(study.trials[study.best].score.hi < t.score.lo)

\* a study with a time dimension whose second trial scored above the first and
\* became the best, with separability, iv and ks all positive
C14_Witness ==
    /\ Len(study.trials) = 2
    /\ study.best = 2
    /\ study.trials[1].score.hi < study.trials[2].score.lo
    /\ data.time_kind # "none"
    /\ RatLt(<<0, 1>>, study.trials[2].separability)
    /\ RatLt(<<0, 1>>, study.trials[2].ks)
    /\ study.trials[2].iv.lo > 0


OptimizeReturned == study.best_params # <<>>

\* C15: optimize_bins returns the parameters of a trial no other trial of the
\* study scored above, each within its declared range, and a binner that was
\* built with those three parameters and fitted (bin_summary set, iv_ a
\* number) and whose best_params_ is the dict returned.
C15_BestParamsAndBinner ==
    OptimizeReturned =>
        LET best_params == study.best_params[1]
            b == study.final_binner[1]
        IN /\ best_params = study.trials[study.best].params
           /\ \A j \in DOMAIN study.trials :
                 ~(study.trials[study.best].score.hi < study.trials[j].score.lo)
           /\ best_params.max_bins \in 3..10
           /\ RatLe(<<1, 100>>, best_params.min_bin_size)
           /\ RatLe(best_params.min_bin_size, <<1, 10>>)
           /\ RatLe(<<1, 100>>, best_params.min_event_rate_diff)
           /\ RatLe(best_params.min_event_rate_diff, <<1, 10>>)
           /\ b.max_bins = best_params.max_bins
           /\ b.min_event_rate_diff = best_params.min_event_rate_diff
           /\ b.strategy_kwargs.min_bin_size = best_params.min_bin_size
           /\ b.best_params_ = best_params
           /\ Len(b.bin_summary) >= 1
           /\ b.iv_.lo \in Nat /\ b.iv_.hi \in Nat /\ b.iv_.lo <= b.iv_.hi

\* the second of two trials scored above the first, with other parameters,
\* and its parameters are the ones returned
C15_Witness ==
    /\ OptimizeReturned
    /\ Len(study.trials) = 2
    /\ study.trials[1].score.hi < study.trials[2].score.lo
    /\ study.trials[1].params.max_bins # study.trials[2].params.max_bins
    /\ study.best_params[1] = study.trials[2].params
    /\ study.final_binner[1].iv_.lo > 0


\* the study gained a trial in this step
Evaluated == Len(study'.trials) = Len(study.trials) + 1

-----------------------------------------------------------------------------
(* C17: the categorical strategy *)

\* the split-finder did not raise and gave the column's values 2 codes
SolverGaveBins ==
    /\ ~data.solver.fails
    /\ \E j, k \in DOMAIN data.col : data.solver.bins[data.col[j]] # data.solver.bins[data.col[k]]

\* C17: CategoricalBinning.fit raises nothing when the split-finder fails;
\* the encoder is tagged "woe" exactly when the split-finder did not raise
\* and produced at least 2 distinct codes, "ordinal" otherwise; bin_summary_
\* is set in both cases (its counts add up to the observations); transform
\* answers the split-finder's codes under "woe", the ordinal encoder's codes
\* under "ordinal".
C17_CategoricalFallback ==
    pc \in {"fitted", "transformed"} =>
        /\ err = "none"
        /\ ret.encoder = (IF SolverGaveBins THEN "woe" ELSE "ordinal")
        /\ Len(ret.bin_summary_) >= 1
        /\ SumSeq([r \in DOMAIN ret.bin_summary_ |-> ret.bin_summary_[r].count]) = Len(data.col)
        /\ pc = "transformed" =>
              /\ Len(ret.codes) = Len(data.col)
              /\ ret.encoder = "woe" =>
                    \A k \in DOMAIN data.col : ret.codes[k] = data.solver.bins[data.col[k]]
              /\ ret.encoder = "ordinal" =>
                    /\ \A k \in DOMAIN data.col : ret.codes[k] >= 1
                    /\ \A j, k \in DOMAIN data.col :
                          (ret.codes[j] = ret.codes[k]) <=> (data.col[j] = data.col[k])

\* the split-finder answered a single bin for a column with two values: the
\* ordinal encoder took over and transform gives the two values two codes
C17_Witness ==
    /\ pc = "transformed"
    /\ ~data.solver.fails
    /\ ~SolverGaveBins
    /\ ret.encoder = "ordinal"
    /\ Len(ret.bin_summary_) = 2
    /\ \E j, k \in DOMAIN ret.codes : ret.codes[j] # ret.codes[k]


-----------------------------------------------------------------------------
(* C18..C20: the orchestrator *)

FitReturned == pc = "fitted"

\* the rows a feature has in bin_summary
RowsOf(variable) == SelectSeq(ret.bin_summary.rows, LAMBDA r : r["variable"] = variable)

\* min_event_rate_diff as configured for feature k: the binner's, or in
\* search mode the one of the feature's best trial
ConfiguredDelta(k) ==
    IF data.use_optuna THEN ret.best_params_[k].min_event_rate_diff
    ELSE data.min_event_rate_diff

\* the table the feature's strategy produced
StrategyTable(f, variable) ==
    IF f.kind = "numeric" THEN BinningTable(f.vals, f.cuts, variable, data.totals)
    ELSE LET s == CategoricalFit([col |-> f.col, y |-> f.y, order |-> "categories",
                                  solver |-> [fails |-> f.fails,
                                              bins |-> [c \in Categories \cup {"_RARE_"} |->
                                                           IF c = "a" THEN 1 ELSE 2]]]).bin_summary_
         IN [cols |-> {"variable", "bin", "count", "event", "non_event", "event_rate"},
             idx |-> DefaultIndex(Len(s)),
             rows |-> [r \in DOMAIN s |->
                          [s[r] EXCEPT !.variable = variable, !.bin = CodeLabels[@]]]]

\* the rows of feature k are those of its refined table, and neighbouring
\* rows are at least the configured difference apart
RefinedFeature(k) ==
    LET rows == RowsOf(FeatureNames[k])
    IN /\ rows = CleanSummary(RefineBins(StrategyTable(data.features[k], FeatureNames[k]),
                                         ConfiguredDelta(k), "None", "None").frame)
       /\ \A r \in 1..(Len(rows) - 1) :
             RatLe(ConfiguredDelta(k), AbsDiff(rows[r]["event_rate"], rows[r + 1]["event_rate"]))

\* C18: after fit, every feature, numeric or categorical, has in bin_summary
\* the rows of its table after refinement with the configured
\* min_event_rate_diff, and these rows satisfy the refinement postcondition.
C18_EveryFeatureRefined ==
    FitReturned => \A k \in DOMAIN data.features : RefinedFeature(k)


\* the call of fit has ended: it returned or it raised
FitEnded == pc \in {"fitted", "raised"}

\* C19: when the call of fit has ended, with or without a failing feature,
\* bin_summary is not a partially filled list and _per_feature_binners does
\* not hold only a prefix of the features; every feature fitted, a
\* single-bin one included, has an entry in bin_summary.
C19_FailureIsolation ==
    /\ FitEnded =>
          /\ ret.bin_summary.kind # "list"
          /\ ret.per_feature_binners.set =>
                Len(ret.per_feature_binners.items) = Len(data.features)
    /\ FitReturned => \A k \in DOMAIN data.features : Len(RowsOf(FeatureNames[k])) >= 1

\* C20: called after a successful fit, plain or per-feature search, with
\* time_col in X, stability_over_time raises nothing and returns the pivot;
\* called before any fit it raises the "not fitted" RuntimeError.
C20_StabilityLifecycle ==
    (pc = "stability" /\ data.time_col_in_X) =>
        IF ret.bin_summary.kind = "frame"
        THEN err = "none" /\ ret.stability = "pivot"
        ELSE err = "RuntimeError"


-----------------------------------------------------------------------------
(* C21..C25, C29: transform and the lookups of the fitted binner *)

Transformed == pc = "transformed"

\* C21: transform(X) after fit returns a frame with the index of X, one
\* column per fitted feature with one cell per row of X, and no missing
\* value in any cell, whatever the index of X and for numeric and
\* categorical features alike.
C21_TransformShape ==
    Transformed =>
        /\ ret.out.frame.idx = ret.out.index
        /\ DOMAIN ret.out.frame.cols = DOMAIN data.features
        /\ \A k \in DOMAIN ret.out.frame.cols :
              /\ Len(ret.out.frame.cols[k]) = Len(ret.out.index)
              /\ \A r \in DOMAIN ret.out.frame.cols[k] : ~ret.out.frame.cols[k][r].nan


Mapped == pc = "mapped"

\* C22: get_bin_mapping(column) returns the category -> bin mapping of a
\* fitted categorical column, fitted alone or with others, in plain or in
\* search mode, with either encoder; it raises ValueError only for a fitted
\* column that is not categorical and RuntimeError only before fit.
C22_BinMapping ==
    Mapped =>
        LET k == FeatureOf(ret.out.column)
            fitted == ret.bin_summary.kind = "frame"
        IN /\ (fitted /\ k # 0 /\ data.features[k].kind = "categorical")
                 => (err = "none" /\ ret.out.mapping # {})
           /\ err = "ValueError"
                 => (fitted /\ (k # 0 => data.features[k].kind # "categorical"))
           /\ err = "RuntimeError" => ~fitted


IvReturned == pc = "scored"

\* C23: for a bin table with a bin having event > 0 and non_event > 0, iv
\* returns a finite value that is >= 0; for a single-bin table it returns
\* exactly 0.
C23_IvWellDefined ==
    IvReturned =>
        /\ (\E k \in DOMAIN data.bin_tbl :
               data.bin_tbl[k].event > 0 /\ data.bin_tbl[k].non_event > 0)
              => (~ret.nan /\ ret.lo >= 0)
        /\ Len(data.bin_tbl) = 1 => (~ret.nan /\ ret.lo = 0 /\ ret.hi = 0)


Labelled == pc = "labelled"

\* the codes transform can emit for a numeric feature: one per value
EmittedCodes(f) == {WoeCode(f.vals, f.cuts, v) : v \in DOMAIN f.vals}

\* C24: for every fitted numeric feature, transform emits as many codes as
\* the feature has rows in bin_summary (values in bins that refinement merged
\* get the same code), and _bin_code_to_label has a label for every code
\* emitted.
C24_RefinedTableUsed ==
    Labelled =>
        LET f == data.features[FeatureOf(ret.out.var)]
        IN f.kind = "numeric" =>
              /\ Cardinality(EmittedCodes(f)) = Len(RowsOf(ret.out.var))
              /\ \A code \in EmittedCodes(f) : LabelOfCode(ret.out.labels, code) # <<>>


\* separability and two-sample distance of feature k's candidate, computed
\* from the time labels of the observations
TimeTerms(k) ==
    LET f == data.features[k]
        pivot == EventRateByTime(f.cells, f.cuts)
    IN [separability |-> TemporalSeparabilityScore(pivot), ks |-> KsOverTime(pivot)]

\* C25: after fit in search mode with a time column configured, the trial
\* each numeric feature was selected on holds the separability and the
\* two-sample distance computed from the time labels, and its iv is the
\* Information Value of that feature's rows alone.
C25_TimeDimensionInSearch ==
    (FitReturned /\ data.use_optuna /\ data.time_col # "None") =>
        \A k \in DOMAIN data.features :
            data.features[k].kind = "numeric" =>
                /\ ret.best_trials[k].separability = TimeTerms(k).separability
                /\ ret.best_trials[k].ks = TimeTerms(k).ks
                /\ ret.best_trials[k].iv.lo = Iv(RowsOf(FeatureNames[k])).lo
                /\ ret.best_trials[k].iv.hi = Iv(RowsOf(FeatureNames[k])).hi


-----------------------------------------------------------------------------
(* C26..C28, C30: the loops of refine_bins *)

\* a _merge call is made in this step
Merging == Len(merges') = Len(merges) + 1

\* the position (0-based) of the row the step merges its successor into
MergedAt == merges'[Len(merges')].at

\* rows j < k with defined rates and only rows of count 0 between them
AcrossEmpty(df, j, k) ==
    /\ j + 1 < k
    /\ ~IsNaN(df.rows[j]["event_rate"])
    /\ ~IsNaN(df.rows[k]["event_rate"])
    /\ \A m \in (j + 1)..(k - 1) : df.rows[m]["count"] = 0

\* C26: refine_bins never merges a pair one of whose rows has count 0 and
\* an undefined rate, and in the table it returns the rows with defined
\* rates on either side of such rows are at least min_er_delta apart and,
\* if a trend is set and more than 2 rows are left, ordered along it.
C26_EmptyBinsExcluded ==
    /\ [][Merging => (tbl.rows[MergedAt + 1]["count"] > 0
                        /\ tbl.rows[MergedAt + 2]["count"] > 0)]_vars
    /\ [](Returned =>
            \A j, k \in DOMAIN ret.rows :
                AcrossEmpty(ret, j, k) =>
                    /\ RatLe(args.min_er_delta,
                             AbsDiff(ret.rows[j]["event_rate"], ret.rows[k]["event_rate"]))
                    /\ (args.trend # "None" /\ Len(ret.rows) > 2) =>
                          IF args.trend = "ascending"
                          THEN RatLe(ret.rows[j]["event_rate"], ret.rows[k]["event_rate"])
                          ELSE RatLe(ret.rows[k]["event_rate"], ret.rows[j]["event_rate"]))


\* the rates of the pair at the cursor differ by strictly less than d
CloserThan(df, k, d) ==
    LET a == df.rows[k + 1]["event_rate"]
        b == df.rows[k + 2]["event_rate"]
    IN ~IsNaN(a) /\ ~IsNaN(b) /\ Abs(a[1] * b[2] - b[1] * a[2]) * d[2] < d[1] * a[2] * b[2]

\* new is old with row k + 1 merged into row k (0-based): row k keeps its
\* place and its other columns, its counts are the sums and its rate is
\* event / count; the other rows are kept in their order
MergedInto(old, new, k) ==
    LET a == old.rows[k + 1]
        b == old.rows[k + 2]
        m == new.rows[k + 1]
    IN /\ Len(new.rows) = Len(old.rows) - 1
       /\ \A r \in 1..k : new.rows[r] = old.rows[r]
       /\ \A r \in (k + 2)..Len(new.rows) : new.rows[r] = old.rows[r + 1]
       /\ DOMAIN m = DOMAIN a
       /\ \A c \in DOMAIN m :
             m[c] = IF c \in {"count", "event", "non_event"} THEN a[c] + b[c]
                    ELSE IF c = "event_rate"
                    THEN Rat(a["event"] + b["event"], a["count"] + b["count"])
                    ELSE a[c]

\* C27: the delta pass is one left-to-right sweep. With the cursor before
\* the last row, a pair strictly closer than min_er_delta is merged into the
\* row at the cursor and the cursor stays; any other pair, one exactly
\* min_er_delta apart included, moves the cursor by one and leaves the table
\* alone. With the cursor on the last row the pass ends.
C27_DeltaSweep ==
    [][pc = "delta" =>
         IF i < Len(tbl.rows) - 1
         THEN /\ pc' = "delta"
              /\ IF CloserThan(tbl, i, args.min_er_delta)
                 THEN i' = i /\ MergedInto(tbl, tbl', i)
                 ELSE i' = i + 1 /\ tbl' = tbl
         ELSE pc' # "delta" /\ tbl' = tbl]_vars

\* the cursor has just moved past a pair exactly min_er_delta apart, after a
\* merge into the first row
C27_Witness ==
    /\ pc = "delta"
    /\ i = 1
    /\ Len(tbl.rows) >= 2
    /\ merges # <<>>
    /\ \A m \in DOMAIN merges : merges[m].pass = "delta" /\ merges[m].at = 0
    /\ AbsDiff(tbl.rows[1]["event_rate"], tbl.rows[2]["event_rate"]) = args.min_er_delta


\* the _merge calls the monotonicity pass has made so far
MonoMerges == SelectSeq(merges, LAMBDA m : m.pass = "mono")

\* the first pair of rows (0-based position of its earlier row) whose slope
\* opposes the trend
LeftmostOpposing(df, trend) ==
    CHOOSE k \in 0..(Len(df.rows) - 2) :
        /\ Opposes(df, k + 1, trend)
        /\ \A j \in 0..(k - 1) : ~Opposes(df, j + 1, trend)

CallEnded == pc \in {"done", "raised"}

\* every iteration of the delta loop removes one row or advances the cursor,
\* every iteration of the monotonicity loop removes one row or leaves the loop
LoopsProgress ==
    /\ [][(pc = "delta" /\ pc' = "delta") =>
            \/ Len(tbl'.rows) = Len(tbl.rows) - 1 /\ i' = i
            \/ tbl' = tbl /\ i' = i + 1]_vars
    /\ [][pc = "mono" =>
            \/ Len(tbl'.rows) = Len(tbl.rows) - 1 /\ pc' = "mono"
            \/ tbl' = tbl /\ pc' # "mono"]_vars

\* a bound on the steps the running call can still take
StepsLeft ==
    CASE pc = "entry" -> 2 * Len(bin_tbl.rows) + 3
      [] pc = "delta" -> 2 * Len(tbl.rows) - i + 2
      [] pc = "mono"  -> Len(tbl.rows) + 1
      [] OTHER        -> 0

\* the guards of Normalize, DeltaMerge, DeltaAdvance, MonoEnter, MonoMerge and
\* MonoExit; each of these actions assigns every variable, so for a call that
\* has not ended this is ENABLED Next
CanStep ==
    \/ pc = "entry"
    \/ pc = "delta" /\ i < Len(tbl.rows) - 1 /\ DeltaBelow(tbl, i, args.min_er_delta)
    \/ pc = "delta" /\ i < Len(tbl.rows) - 1 /\ ~DeltaBelow(tbl, i, args.min_er_delta)
    \/ pc = "delta" /\ ~(i < Len(tbl.rows) - 1)
    \/ pc = "mono" /\ MonoLoopTest(tbl, args.trend) /\ Bad(tbl, args.trend) # {}
    \/ pc = "mono" /\ ~(MonoLoopTest(tbl, args.trend) /\ Bad(tbl, args.trend) # {})

\* CanStep is the enabling condition of a step of the call
CanStepIsEnabled == ~CallEnded => (CanStep <=> ENABLED Next)

\* every step of a call lowers StepsLeft, which is never negative, and a call
\* that has not ended can take a step: under SpecTerminates every call ends
CallEnds ==
    /\ [][call' = call => StepsLeft' < StepsLeft]_vars
    /\ [](StepsLeft >= 0)
    /\ [](~CallEnded => CanStep)

\* the conclusion, stated directly
EntryLeadsToEnd == (pc = "entry") ~> CallEnded

\* C30 as stated: every call of refine_bins ends, its loops progress as
\* above, and the number of merges is at most the number of input rows - 1.
C30_TerminatesWithinRows ==
    /\ CallEnds
    /\ LoopsProgress
    /\ [](Len(merges) <= Len(orig.rows) - 1)

\* C30, amended: every call of refine_bins ends, its loops progress as
\* above, and the number of merges is at most the number of input rows - 1
\* for a table with at least one row, and 0 for a table without rows.
C30_Terminates ==
    /\ CallEnds
    /\ LoopsProgress
    /\ [](Len(merges) <= IF Len(orig.rows) >= 1 THEN Len(orig.rows) - 1 ELSE 0)

\* a call has ended after merging all the rows of its table but one
C30_Witness ==
    /\ pc = "done"
    /\ Len(orig.rows) >= 3
    /\ Len(merges) = Len(orig.rows) - 1

-----------------------------------------------------------------------------
(* C29: the bookkeeping rows of the split-finder table *)

\* the table without its Special, Missing and totals rows and without the
\* rows of count 0, index reset
BinsOnly(df) ==
    LET rows == SelectSeq(df.rows, LAMBDA r :
                    r["Count"] > 0 /\ r["Bin"] \notin Bookkeeping \cup {data.totals})
    IN [df EXCEPT !.rows = rows, !.idx = DefaultIndex(Len(rows))]

\* C29: after a fit without search, the bin_summary rows of every numeric
\* feature are the rows refine_bins returns for the feature's split-finder
\* table with the Total/Special/Missing rows and the rows of count 0 removed
\* beforehand.
C29_BookkeepingNoInfluence ==
    (FitReturned /\ ~data.use_optuna) =>
        \A k \in DOMAIN data.features :
            data.features[k].kind = "numeric" =>
                RowsOf(FeatureNames[k]) =
                    RefineBins(BinsOnly(StrategyTable(data.features[k], FeatureNames[k])),
                               data.min_event_rate_diff, "None", "None").frame.rows

====
